---- MODULE Spec2Model ----
(***************************************************************************)
(* Model of the seed-and-key custody core of the OTS library:              *)
(*   - KeyJar (ots/src/keyjar.cpp, ots/include/keyjar.hpp): a mutex        *)
(*     protected unordered_map from random 64-bit handles to key entries,  *)
(*     called from several threads;                                        *)
(*   - Seed::birthday / Seed::height (ots/src/seed.cpp) and the            *)
(*     height/timestamp conversion they consult (OTS::heightFromTimestamp, *)
(*     OTS::timestampFromHeight).                                          *)
(***************************************************************************)
EXTENDS Integers, Sequences, FiniteSets, TLC

----------------------------------------------------------------------------
(* Bounds of the model *)

\* Stand-in for UINT64_MAX: handles are drawn from 1..HandleSpace.
HandleSpace == 2
\* Number of KeyJar operations invoked in one behaviour.
MaxOps == 4

\* Largest small timestamp (seconds) and largest offset past the 30-day mark.
MaxTime == 2
\* Largest chain height a seed is created with.
MaxHeight == 2

\* Largest number of languages in the catalog.
MaxLangs == 2

\* Runs of the population block of SeedLanguage::list after which no new call starts.
MaxPopulations == 2

\* Number of words of a dictionary: the word indices are 0..WordCount-1.
WordCount == 3

\* Number of words of a phrase.
PhraseLen == 2

\* Number of Seed objects that callers hold and may register in the SeedJar.
MaxSeeds == 2
HeapSize == 3

\* The concurrent caller threads of the jar.
Threads == {1, 2}
\* The secret keys the callers present (each number stands for 32 key bytes).
Keys == {1, 2}
Labels == {"", "a"}
\* Handle arguments a caller may pass to getKey / removeKey (0 = invalid handle).
HandleArgs == 0..HandleSpace

----------------------------------------------------------------------------
(* State *)

VARIABLES
    keys_,      \* KeyJar::keys_   : set of entries [handle, key, label, access_count]
    mutex_,     \* KeyJar::mutex_  : 0 when free, else the thread that holds it
    pc,         \* per thread: position inside storeKey / getKey / removeKey
    loc,        \* per thread: arguments and locals of the running call
    ret,        \* per thread: the value the last completed call returned (again: history,
                \*   removeKey had already run on that handle since the latest store)
    ref,        \* per thread: the raw pointer the last getKey returned to it
    nops,       \* number of operations invoked so far
    issued,     \* history: handles ever returned by storeKey
    removed,    \* history: handles ever erased by removeKey
    lastStore,  \* history: the latest completed store, while nothing was erased since
    removedSinceStore, \* history: handles removeKey was run on since the latest store
    seed,       \* the Seed object: type, m_birthday, m_height, m_network
    created,    \* history: the seed as its factory left it
    result,     \* outcome of the last birthday() / height() call on the seed
    calls,      \* the conversions OTS::... that call consulted, in order
    s_list,     \* SeedLanguage::s_list    : the catalog, a sequence of languages
    s_default,  \* SeedLanguage::s_default : map from SeedType to a language
    langRes,    \* outcome of the last SeedLanguage call
    lpc,        \* per thread: position inside SeedLanguage::list
    lret,       \* per thread: the catalog its last list() call returned
    populations, \* history: number of times the population block of list() was run
    eseed,      \* the EncryptableSeed object: type, m_values, m_encrypted, m_check
    eres,       \* outcome of the last call on the encryptable seed
    ehist,      \* history: the password the seed is encrypted with and, when encrypt
                \*   was called on this object, the values() it had before
    rt,         \* outcome of the last phrase(language) / decode(phrase, language) pair
    sfp,        \* fingerprint() of each Seed object
    sjar,       \* the SeedJar: its entries [handle, seed] in registration order
    sjres,      \* outcome of the last SeedJar call
    ares,       \* outcome of the last Address / Wallet::hasAddress call
    OTS_VERSION_STRING, \* version.h: the literal the build defines, NUL included
    ores,       \* outcome of the last OTS::... / ots_version call
    cres,       \* the caller's ots_result_t: ctx, error code, message as a C string
    heap,       \* the free store: what lives at each address
    sub         \* a call of i_sub_handler::update_and_stop: position, arguments,
                \*   the virtual calls made so far, result

keyJarVars == <<keys_, mutex_, pc, loc, ret, ref, nops, issued, removed, lastStore,
                removedSinceStore>>
seedVars == <<seed, created, result, calls>>
langVars == <<s_list, s_default, langRes, lpc, lret, populations>>
encVars == <<eseed, eres, ehist>>
phraseVars == <<rt>>
seedJarVars == <<sfp, sjar, sjres>>
addrVars == <<ares>>
otsVars == <<OTS_VERSION_STRING, ores, cres, heap>>
handlerVars == <<sub>>
vars == <<keyJarVars, seedVars, langVars, encVars, phraseVars, seedJarVars, addrVars,
          otsVars, handlerVars>>

\* What an action of one component leaves alone: the state of the other components.
notKeyJar == <<seedVars, langVars, encVars, phraseVars, seedJarVars,
    addrVars, otsVars, handlerVars>>
notSeed == <<keyJarVars, langVars, encVars, phraseVars, seedJarVars,
    addrVars, otsVars, handlerVars>>
notLang == <<keyJarVars, seedVars, encVars, phraseVars, seedJarVars,
    addrVars, otsVars, handlerVars>>
notEnc == <<keyJarVars, seedVars, langVars, phraseVars, seedJarVars,
    addrVars, otsVars, handlerVars>>
notPhrase == <<keyJarVars, seedVars, langVars, encVars, seedJarVars,
    addrVars, otsVars, handlerVars>>
notSeedJar == <<keyJarVars, seedVars, langVars, encVars, phraseVars,
    addrVars, otsVars, handlerVars>>
notAddr == <<keyJarVars, seedVars, langVars, encVars, phraseVars, seedJarVars,
    otsVars, handlerVars>>
notOts == <<keyJarVars, seedVars, langVars, encVars, phraseVars, seedJarVars,
    addrVars, handlerVars>>
notHandler == <<keyJarVars, seedVars, langVars, encVars, phraseVars, seedJarVars,
    addrVars, otsVars>>

NoLoc == [key |-> 0, label |-> "", handle |-> 0]
NoRet == [op |-> "none", handle |-> 0, ok |-> FALSE, again |-> FALSE]
NullRef == [handle |-> 0, live |-> FALSE]
NoStore == [valid |-> FALSE, key |-> 0, label |-> "", handle |-> 0, sizeBefore |-> 0]

----------------------------------------------------------------------------
(* std::unordered_map<key_handle_t, SecureKeyEntry> *)

Handles(keys) == {e.handle : e \in keys}

\* keys_.find(handle) != keys_.end()
Find(keys, handle) == handle \in Handles(keys)

\* SecureKeyEntry(key, label): access_count{0}
SecureKeyEntry(handle, key, label) ==
    [handle |-> handle, key |-> key, label |-> label, access_count |-> 0]

\* keys_.emplace(handle, entry): inserts only when the handle is not a key of the map
Emplace(keys, handle, key, label) ==
    IF Find(keys, handle) THEN keys
    ELSE keys \cup {SecureKeyEntry(handle, key, label)}

\* faulty variant: erase leaves the map as it is
EraseNothing(keys, handle) == keys

\* keys_.erase(handle): removes the entry of that handle, if any
Erase(keys, handle) == {e \in keys : e.handle # handle}

\* faulty variant: the access count of every entry is incremented
TouchAll(keys, handle) ==
    {[e EXCEPT !.access_count = @ + 1] : e \in keys}

\* it->second.access_count++
Touch(keys, handle) ==
    {IF e.handle = handle THEN [e EXCEPT !.access_count = @ + 1] ELSE e : e \in keys}

\* faulty variant: the cleanup pass evicts the entries that were never accessed
cleanupUnusedKeysEvicts(keys) == {e \in keys : e.access_count > 0}

\* KeyJar::cleanupUnusedKeys: the body is empty
cleanupUnusedKeys(keys) == keys

\* faulty variant: the retry loop accepts any nonzero draw
GenerateHandleRetriesNoFind(keys, handle) == handle = 0

\* KeyJar::generateHandle: while (handle == 0 || keys_.find(handle) != keys_.end())
GenerateHandleRetries(keys, handle) == handle = 0 \/ Find(keys, handle)

\* std::uniform_int_distribution<key_handle_t> dis(1, UINT64_MAX)
HandleDraws == 1..HandleSpace

\* std::lock_guard<std::mutex> lock(mutex_): blocks until the mutex is free
LockGuardAcquirable(holder) == holder = 0

\* ~lock_guard at the return of storeKey / removeKey: the mutex is free again
LockGuardReleased(t) == 0

\* faulty variant: getKey hands out a scoped borrow, the jar stays locked by the caller
\* for as long as it holds the reference
GetKeyKeepsLock(t) == t

\* ~lock_guard at the return of getKey: the mutex is free again while the caller
\* holds the raw pointer
GetKeyReleasesLock(t) == 0

----------------------------------------------------------------------------
(* Initial state: an empty jar, every thread outside the jar *)

KeyJarInit ==
    /\ keys_ = {}
    /\ mutex_ = 0
    /\ pc = [t \in Threads |-> "idle"]
    /\ loc = [t \in Threads |-> NoLoc]
    /\ ret = [t \in Threads |-> NoRet]
    /\ ref = [t \in Threads |-> NullRef]
    /\ nops = 0
    /\ issued = {}
    /\ removed = {}
    /\ lastStore = NoStore
    /\ removedSinceStore = {}

historyVars == <<issued, removed, lastStore, removedSinceStore>>

----------------------------------------------------------------------------
(* KeyJar::storeKey *)

\* A thread calls storeKey(key, label).
StoreCall(t) ==
    /\ pc[t] = "idle"
    /\ nops < MaxOps
    /\ \E k \in Keys, l \in Labels :
          loc' = [loc EXCEPT ![t] = [key |-> k, label |-> l, handle |-> 0]]
    /\ pc' = [pc EXCEPT ![t] = "store_lock"]
    /\ nops' = nops + 1
    /\ ret' = [ret EXCEPT ![t] = NoRet]
    /\ UNCHANGED <<keys_, mutex_, ref, historyVars, notKeyJar>>

\* std::lock_guard<std::mutex> lock(mutex_)
StoreLock(t) ==
    /\ pc[t] = "store_lock"
    /\ LockGuardAcquirable(mutex_)
    /\ mutex_' = t
    /\ pc' = [pc EXCEPT ![t] = "store_gen"]
    /\ UNCHANGED <<keys_, loc, ret, ref, nops, historyVars, notKeyJar>>

\* One iteration of the do-while loop of generateHandle: handle = dis(gen).
GenerateHandle(t) ==
    /\ pc[t] = "store_gen"
    /\ \E h \in HandleDraws :
          /\ loc' = [loc EXCEPT ![t].handle = h]
          /\ pc' = [pc EXCEPT ![t] =
                      IF GenerateHandleRetries(keys_, h) THEN "store_gen"
                      ELSE "store_emplace"]
    /\ UNCHANGED <<keys_, mutex_, ret, ref, nops, historyVars, notKeyJar>>

\* keys_.emplace(...); cleanupUnusedKeys(); return handle;  (the guard is released)
StoreFinish(t) ==
    /\ pc[t] = "store_emplace"
    /\ keys_' = cleanupUnusedKeys(Emplace(keys_, loc[t].handle, loc[t].key, loc[t].label))
    /\ mutex_' = LockGuardReleased(t)
    /\ ret' = [ret EXCEPT ![t] = [op |-> "store", handle |-> loc[t].handle, ok |-> TRUE,
                                  again |-> FALSE]]
    /\ pc' = [pc EXCEPT ![t] = "idle"]
    /\ issued' = issued \cup {loc[t].handle}
    /\ lastStore' = [valid |-> TRUE, key |-> loc[t].key, label |-> loc[t].label,
                     handle |-> loc[t].handle, sizeBefore |-> Cardinality(keys_)]
    /\ removedSinceStore' = {}
    /\ loc' = [loc EXCEPT ![t] = NoLoc]
    /\ UNCHANGED <<ref, nops, removed, notKeyJar>>

----------------------------------------------------------------------------
(* KeyJar::getKey *)

GetCall(t) ==
    /\ pc[t] = "idle"
    /\ nops < MaxOps
    /\ \E h \in HandleArgs :
          loc' = [loc EXCEPT ![t] = [key |-> 0, label |-> "", handle |-> h]]
    /\ pc' = [pc EXCEPT ![t] = "get_lock"]
    /\ nops' = nops + 1
    /\ ret' = [ret EXCEPT ![t] = NoRet]
    /\ UNCHANGED <<keys_, mutex_, ref, historyVars, notKeyJar>>

GetLock(t) ==
    /\ pc[t] = "get_lock"
    /\ LockGuardAcquirable(mutex_)
    /\ mutex_' = t
    /\ pc' = [pc EXCEPT ![t] = "get_body"]
    /\ UNCHANGED <<keys_, loc, ret, ref, nops, historyVars, notKeyJar>>

\* find; nullptr when absent; else access_count++ and the raw pointer to the key.
GetBody(t) ==
    /\ pc[t] = "get_body"
    /\ LET h == loc[t].handle
           found == Find(keys_, h)
       IN /\ keys_' = IF found THEN Touch(keys_, h) ELSE keys_
          /\ ret' = [ret EXCEPT ![t] = [op |-> "get", handle |-> h, ok |-> found,
                                        again |-> FALSE]]
          /\ ref' = [ref EXCEPT ![t] =
                       IF found THEN [handle |-> h, live |-> TRUE] ELSE NullRef]
    /\ mutex_' = GetKeyReleasesLock(t)
    /\ pc' = [pc EXCEPT ![t] = "idle"]
    /\ loc' = [loc EXCEPT ![t] = NoLoc]
    /\ UNCHANGED <<nops, historyVars, notKeyJar>>

----------------------------------------------------------------------------
(* KeyJar::removeKey *)

RemoveCall(t) ==
    /\ pc[t] = "idle"
    /\ nops < MaxOps
    /\ \E h \in HandleArgs :
          loc' = [loc EXCEPT ![t] = [key |-> 0, label |-> "", handle |-> h]]
    /\ pc' = [pc EXCEPT ![t] = "remove_lock"]
    /\ nops' = nops + 1
    /\ ret' = [ret EXCEPT ![t] = NoRet]
    /\ UNCHANGED <<keys_, mutex_, ref, historyVars, notKeyJar>>

RemoveLock(t) ==
    /\ pc[t] = "remove_lock"
    /\ LockGuardAcquirable(mutex_)
    /\ mutex_' = t
    /\ pc' = [pc EXCEPT ![t] = "remove_body"]
    /\ UNCHANGED <<keys_, loc, ret, ref, nops, historyVars, notKeyJar>>

\* return keys_.erase(handle) > 0;  erasing destroys the entry's unique_ptr<secret_key>,
\* so every raw pointer a getKey handed out for it now points to freed memory.
RemoveBody(t) ==
    /\ pc[t] = "remove_body"
    /\ LET h == loc[t].handle
           found == Find(keys_, h)
       IN /\ keys_' = Erase(keys_, h)
          /\ ret' = [ret EXCEPT ![t] =
                       [op |-> "remove", handle |-> h, ok |-> Erase(keys_, h) # keys_,
                        again |-> h \in removedSinceStore]]
          /\ ref' = [u \in Threads |->
                       IF found /\ ref[u].handle = h
                       THEN [ref[u] EXCEPT !.live = FALSE] ELSE ref[u]]
          /\ removed' = IF found THEN removed \cup {h} ELSE removed
          /\ lastStore' = IF found THEN NoStore ELSE lastStore
          /\ removedSinceStore' = removedSinceStore \cup {h}
    /\ mutex_' = LockGuardReleased(t)
    /\ pc' = [pc EXCEPT ![t] = "idle"]
    /\ loc' = [loc EXCEPT ![t] = NoLoc]
    /\ UNCHANGED <<nops, issued, notKeyJar>>


----------------------------------------------------------------------------
(* Seed: birthday / height and the conversions of OTS *)

\* enum class Network
Networks == {"MAIN", "TEST", "STAGE"}
SeedTypes == {"LegacySeed", "MoneroSeed", "Polyseed"}

\* The security time span of Polyseed heights named by the documentation of
\* Seed::height: 30 days, in seconds.
ThirtyDays == 30 * 24 * 60 * 60

\* Timestamps (unix seconds) and heights the factories are called with.
TimeValues == (0..MaxTime) \cup {ThirtyDays + i : i \in 0..MaxTime}
HeightValues == 0..MaxHeight

NoSeed == [type |-> "none", m_birthday |-> 0, m_height |-> 0, m_network |-> "MAIN"]
NoResult == [fn |-> "none", ok |-> FALSE, value |-> 0, err |-> ""]

Returned(v) == [ok |-> TRUE, value |-> v, err |-> ""]
Thrown(e) == [ok |-> FALSE, value |-> 0, err |-> e]
Consulted(fn, arg, network) == [fn |-> fn, arg |-> arg, network |-> network]

\* OTS::heightFromTimestamp: NOT_IMPLEMENTED_YET()
heightFromTimestamp(timestamp, network) == Thrown("NotImplementedYet")

\* OTS::timestampFromHeight: NOT_IMPLEMENTED_YET()
timestampFromHeight(height, network) == Thrown("NotImplementedYet")

\* faulty variant: birthday() mirrors height(): it derives only when a height is
\* stored
Seed_birthdayLikeHeight(sd) ==
    IF sd.m_birthday = 0 /\ sd.m_height # 0
    THEN [out |-> timestampFromHeight(sd.m_height, sd.m_network),
          calls |-> <<Consulted("timestampFromHeight", sd.m_height, sd.m_network)>>]
    ELSE [out |-> Returned(sd.m_birthday), calls |-> <<>>]

\* Seed::birthday: the outcome and the conversions consulted
Seed_birthday(sd) ==
    IF sd.m_birthday # 0
    THEN [out |-> Returned(sd.m_birthday), calls |-> <<>>]
    ELSE [out |-> timestampFromHeight(sd.m_height, sd.m_network),
          calls |-> <<Consulted("timestampFromHeight", sd.m_height, sd.m_network)>>]

\* faulty variant: height() estimates from the birthday less the 30-day span
Seed_heightWithMargin(sd) ==
    IF sd.m_height = 0 /\ sd.m_birthday # 0
    THEN [out |-> heightFromTimestamp(sd.m_birthday - ThirtyDays, sd.m_network),
          calls |-> <<Consulted("heightFromTimestamp", sd.m_birthday - ThirtyDays,
                                sd.m_network)>>]
    ELSE [out |-> Returned(sd.m_height), calls |-> <<>>]

\* Seed::height: the outcome and the conversions consulted.  LegacySeed, MoneroSeed
\* and Polyseed declare no height() of their own: this is the one every seed runs.
Seed_height(sd) ==
    IF sd.m_height = 0 /\ sd.m_birthday # 0
    THEN [out |-> heightFromTimestamp(sd.m_birthday, sd.m_network),
          calls |-> <<Consulted("heightFromTimestamp", sd.m_birthday, sd.m_network)>>]
    ELSE [out |-> Returned(sd.m_height), calls |-> <<>>]

\* faulty variant: the derived coordinate is written into the seed (here the height test
\* `m_height == 0` written as the assignment `m_height = 0`)
SeedAfterConstCallWrites(sd) == [sd EXCEPT !.m_height = 0]

\* birthday() and height() are const member functions: *this after the call
SeedAfterConstCall(sd) == sd

\* The factories (decode / create / generate) of the concrete seed types: they fill
\* m_height, m_birthday and m_network from their height, time and network
\* parameters; the Polyseed factories take no height.
SeedFactory(type, height, time, network) ==
    [type |-> type, m_birthday |-> time,
     m_height |-> IF type = "Polyseed" THEN 0 ELSE height, m_network |-> network]

SeedInit ==
    /\ seed = NoSeed
    /\ created = NoSeed
    /\ result = NoResult
    /\ calls = <<>>

\* A seed object comes out of a factory.
SeedCreate ==
    /\ \E type \in SeedTypes, height \in HeightValues, time \in TimeValues,
          network \in Networks :
          /\ seed' = SeedFactory(type, height, time, network)
          /\ created' = SeedFactory(type, height, time, network)
    /\ result' = NoResult
    /\ calls' = <<>>
    /\ UNCHANGED notSeed

\* seed.birthday()
CallBirthday ==
    /\ seed.type # "none"
    /\ result' = [fn |-> "birthday"] @@ Seed_birthday(seed).out
    /\ calls' = Seed_birthday(seed).calls
    /\ seed' = SeedAfterConstCall(seed)
    /\ UNCHANGED <<created, notSeed>>

\* seed.height()
CallHeight ==
    /\ seed.type # "none"
    /\ result' = [fn |-> "height"] @@ Seed_height(seed).out
    /\ calls' = Seed_height(seed).calls
    /\ seed' = SeedAfterConstCall(seed)
    /\ UNCHANGED <<created, notSeed>>

SeedNext == SeedCreate \/ CallBirthday \/ CallHeight


----------------------------------------------------------------------------
(* SeedLanguage: the catalog s_list, the defaults s_default and the lookups *)

\* enum class SeedType
SeedTypeEnum == {"Monero", "Polyseed"}

\* std::map<SeedType, bool> m_supported: a flag for some of the seed types
SupportMaps == UNION {[D -> BOOLEAN] : D \in SUBSET SeedTypeEnum}

\* m_code, m_name, m_englishName of the languages of the dictionary table.
LanguageIds ==
    { [code |-> "en", name |-> "English", englishName |-> "English"],
      [code |-> "de", name |-> "Deutsch", englishName |-> "German"],
      [code |-> "nl", name |-> "Nederlands", englishName |-> "Dutch"] }

\* The support maps of a table of which every language can phrase a Monero seed.
MoneroSupportMaps ==
    { [t \in {"Monero"} |-> TRUE], [t \in SeedTypeEnum |-> TRUE] }

\* The SeedLanguage objects with a support map of maps: m_code, m_name,
\* m_englishName, m_supported
Languages(maps) ==
    { [code |-> id.code, name |-> id.name, englishName |-> id.englishName,
       supported |-> m] : id \in LanguageIds, m \in maps }

\* The catalogs the dictionary table may hold: at most MaxLangs languages, one per code.
Catalogs(maps) ==
    UNION { { sl \in [1..k -> Languages(maps)] :
                \A i, j \in 1..k : sl[i].code = sl[j].code => i = j } : k \in 0..MaxLangs }

\* The default maps over a catalog: for some seed types, one language of the catalog.
DefaultMaps(sl) ==
    UNION { [D -> {sl[i] : i \in DOMAIN sl}] : D \in SUBSET SeedTypeEnum }

\* Strings a caller looks a language up by: the attributes of the table and
\* differently cased or unknown spellings.
StringArgs ==
    {id.code : id \in LanguageIds} \cup {id.name : id \in LanguageIds}
        \cup {id.englishName : id \in LanguageIds} \cup {"EN", "english", ""}

NoLangRes == [fn |-> "none", arg |-> "", type |-> "", idx |-> 0, ok |-> FALSE,
              err |-> "", langs |-> <<>>, flag |-> FALSE]

\* faulty variant: a comparison that ignores the case of the letters
Lower(str) == CASE str = "EN" -> "en" [] str = "English" -> "english" [] OTHER -> str
StringEqualsIgnoreCase(a, b) == Lower(a) = Lower(b)

\* std::string operator==, as the lookups compare an attribute with their argument
StringEquals(a, b) == a = b

\* Index of the first TRUE of a sequence of comparison results, 0 when there is
\* none (a range-for loop that returns at the first hit).
FirstIndex(hits) ==
    IF \E i \in DOMAIN hits : hits[i]
    THEN CHOOSE i \in DOMAIN hits : hits[i] /\ \A j \in 1..(i - 1) : ~hits[j]
    ELSE 0

\* faulty variant: the guarded block fills the catalog with a language
GenerateListOneLanguage(sl) == <<CHOOSE lang \in Languages(MoneroSupportMaps) : TRUE>>

\* The block of SeedLanguage::list guarded by s_list.size() == 0 ("TODO: generate
\* s_list"): it is empty, s_list is as it was.
GenerateList(sl) == sl

\* SeedLanguage::list: the catalog it returns
list(sl) == IF Len(sl) = 0 THEN GenerateList(sl) ELSE sl

\* SeedLanguage::operator==
LanguageEquals(a, b) == a.code = b.code

\* SeedLanguage::supported: the flag of the first language of list() that has a
\* flag for the type; false when none has
SeedLanguage_supported(sl, lang, type) ==
    LET HasFlag(item) == type \in DOMAIN item.supported
        i == FirstIndex([k \in DOMAIN list(sl) |-> HasFlag(list(sl)[k])])
    IN IF i = 0 THEN FALSE ELSE list(sl)[i].supported[type]

\* faulty variant: isDefault that does not compare the code with the default's
SeedLanguage_isDefaultAnyCode(sd, lang, type) == type \in DOMAIN sd

\* SeedLanguage::isDefault
SeedLanguage_isDefault(sd, lang, type) ==
    type \in DOMAIN sd /\ sd[type].code = lang.code

\* throw ots::exception::seed::LanguageNotFound()
LanguageNotFound == [ok |-> FALSE, err |-> "LanguageNotFound", langs |-> <<>>]
\* throw ots::exception::seed::NoDefaultLanguageSet()
NoDefaultLanguageSet == [ok |-> FALSE, err |-> "NoDefaultLanguageSet", langs |-> <<>>]
FoundLanguage(lang) == [ok |-> TRUE, err |-> "", langs |-> <<lang>>]

\* SeedLanguage::fromName
fromName(sl, name) ==
    LET Hit(item) == StringEquals(item.name, name)
        i == FirstIndex([k \in DOMAIN list(sl) |-> Hit(list(sl)[k])])
    IN IF i = 0 THEN LanguageNotFound ELSE FoundLanguage(list(sl)[i])

\* SeedLanguage::fromEnglishName
fromEnglishName(sl, name) ==
    LET Hit(item) == StringEquals(item.englishName, name)
        i == FirstIndex([k \in DOMAIN list(sl) |-> Hit(list(sl)[k])])
    IN IF i = 0 THEN LanguageNotFound ELSE FoundLanguage(list(sl)[i])

\* faulty variant: fromCode comparing the native name instead of the code
fromCodeComparesName(sl, code) == fromName(sl, code)

\* SeedLanguage::fromCode
fromCode(sl, code) ==
    LET Hit(item) == StringEquals(item.code, code)
        i == FirstIndex([k \in DOMAIN list(sl) |-> Hit(list(sl)[k])])
    IN IF i = 0 THEN LanguageNotFound ELSE FoundLanguage(list(sl)[i])

\* SeedLanguage::listFor
listFor(sl, type) ==
    LET Keep(item) == SeedLanguage_supported(sl, item, type)
    IN SelectSeq(list(sl), Keep)

\* faulty variant: defaultLanguage that falls back to the default of another type
defaultLanguageOrOther(sd, type) ==
    IF type \in DOMAIN sd THEN FoundLanguage(sd[type])
    ELSE IF DOMAIN sd # {} THEN FoundLanguage(sd[CHOOSE t \in DOMAIN sd : TRUE])
    ELSE NoDefaultLanguageSet

\* SeedLanguage::defaultLanguage
defaultLanguage(sd, type) ==
    IF type \in DOMAIN sd THEN FoundLanguage(sd[type]) ELSE NoDefaultLanguageSet

\* Seed::languageSupported, which LegacySeed, MoneroSeed and Polyseed all inherit:
\* the class of the seed is not consulted
Seed_languageSupported(sl, class, lang) == SeedLanguage_supported(sl, lang, "Monero")

\* Seed::phrase(language): renders the values when languageSupported(language),
\* fails otherwise
Seed_phrase(sl, class, lang) ==
    IF Seed_languageSupported(sl, class, lang)
    THEN [ok |-> TRUE, err |-> ""]
    ELSE [ok |-> FALSE, err |-> "LanguageNotSupported"]

\* s_list and s_default are written by no SeedLanguage function other than the
\* population block of list(): the two after a lookup
CatalogAfterLookup(sl) == list(sl)
DefaultsAfterLookup(sd) == sd

\* How often a lookup that iterates over list() runs the guarded block of list():
\* once when it finds the catalog empty (the loop then has no item, so list() is
\* not entered again), never when the catalog has an item.
BlocksRunByLookup(sl) == IF Len(sl) = 0 THEN 1 ELSE 0

\* No catalog, no defaults, nobody inside list().
LangIdle ==
    /\ s_list = <<>>
    /\ s_default = <<>>
    /\ langRes = NoLangRes
    /\ lpc = [t \in Threads |-> "idle"]
    /\ lret = [t \in Threads |-> <<>>]
    /\ populations = 0

\* The static members as a dictionary table with support maps of maps defines them.
LangTable(maps) ==
    /\ s_list \in Catalogs(maps)
    /\ s_default \in DefaultMaps(s_list)
    /\ langRes = NoLangRes
    /\ lpc = [t \in Threads |-> "idle"]
    /\ lret = [t \in Threads |-> <<>>]
    /\ populations = 0

\* What fromName, fromEnglishName, fromCode, listFor and supported leave behind:
\* all of them call list()
LookupFrame ==
    /\ populations + BlocksRunByLookup(s_list) <= MaxPopulations
    /\ s_list' = CatalogAfterLookup(s_list)
    /\ s_default' = DefaultsAfterLookup(s_default)
    /\ populations' = populations + BlocksRunByLookup(s_list)
    /\ UNCHANGED <<lpc, lret, notLang>>

\* What isDefault and defaultLanguage leave behind: they read s_default only and
\* do not call list()
DefaultFrame ==
    /\ s_default' = DefaultsAfterLookup(s_default)
    /\ UNCHANGED <<s_list, lpc, lret, populations, notLang>>

\* SeedLanguage::fromName(name)
CallFromName ==
    /\ \E name \in StringArgs :
          langRes' = fromName(s_list, name)
                       @@ [NoLangRes EXCEPT !.fn = "fromName", !.arg = name]
    /\ LookupFrame

\* SeedLanguage::fromEnglishName(name)
CallFromEnglishName ==
    /\ \E name \in StringArgs :
          langRes' = fromEnglishName(s_list, name)
                       @@ [NoLangRes EXCEPT !.fn = "fromEnglishName", !.arg = name]
    /\ LookupFrame

\* SeedLanguage::fromCode(code)
CallFromCode ==
    /\ \E code \in StringArgs :
          langRes' = fromCode(s_list, code)
                       @@ [NoLangRes EXCEPT !.fn = "fromCode", !.arg = code]
    /\ LookupFrame

\* SeedLanguage::listFor(type)
CallListFor ==
    /\ \E type \in SeedTypeEnum :
          langRes' = [NoLangRes EXCEPT !.fn = "listFor", !.type = type, !.ok = TRUE,
                                       !.langs = listFor(s_list, type)]
    /\ LookupFrame

\* SeedLanguage::list()[idx].supported(type)
CallSupported ==
    /\ \E idx \in DOMAIN s_list, type \in SeedTypeEnum :
          langRes' = [NoLangRes EXCEPT !.fn = "supported", !.type = type, !.idx = idx,
                        !.ok = TRUE,
                        !.flag = SeedLanguage_supported(s_list, s_list[idx], type)]
    /\ LookupFrame

\* SeedLanguage::list()[idx].isDefault(type)
CallIsDefault ==
    /\ \E idx \in DOMAIN s_list, type \in SeedTypeEnum :
          langRes' = [NoLangRes EXCEPT !.fn = "isDefault", !.type = type, !.idx = idx,
                        !.ok = TRUE,
                        !.flag = SeedLanguage_isDefault(s_default, s_list[idx], type)]
    /\ DefaultFrame

\* SeedLanguage::defaultLanguage(type)
CallDefaultLanguage ==
    /\ \E type \in SeedTypeEnum :
          langRes' = defaultLanguage(s_default, type)
                       @@ [NoLangRes EXCEPT !.fn = "defaultLanguage", !.type = type]
    /\ DefaultFrame

\* A thread calls SeedLanguage::list()
ListCall(t) ==
    /\ lpc[t] = "idle"
    /\ populations < MaxPopulations
    /\ lpc' = [lpc EXCEPT ![t] = "test"]
    /\ lret' = [lret EXCEPT ![t] = <<>>]
    /\ UNCHANGED <<s_list, s_default, langRes, populations, notLang>>

\* if(s_list.size() == 0): read without any lock or once-flag
ListTest(t) ==
    /\ lpc[t] = "test"
    /\ lpc' = [lpc EXCEPT ![t] = IF Len(s_list) = 0 THEN "populate" ELSE "return"]
    /\ UNCHANGED <<s_list, s_default, langRes, lret, populations, notLang>>

\* the guarded block: { // TODO: generate s_list }
ListPopulate(t) ==
    /\ lpc[t] = "populate"
    /\ s_list' = GenerateList(s_list)
    /\ populations' = populations + 1
    /\ lpc' = [lpc EXCEPT ![t] = "return"]
    /\ UNCHANGED <<s_default, langRes, lret, notLang>>

\* return s_list
ListReturn(t) ==
    /\ lpc[t] = "return"
    /\ lret' = [lret EXCEPT ![t] = s_list]
    /\ lpc' = [lpc EXCEPT ![t] = "idle"]
    /\ UNCHANGED <<s_list, s_default, langRes, populations, notLang>>

ListNext ==
    \E t \in Threads :
        \/ ListCall(t)
        \/ ListTest(t)
        \/ ListPopulate(t)
        \/ ListReturn(t)

\* phrase(SeedLanguage::list()[idx]) on a seed of one of the concrete classes
CallPhrase ==
    /\ \E class \in SeedTypes, idx \in DOMAIN s_list :
          langRes' = Seed_phrase(s_list, class, s_list[idx])
                       @@ [NoLangRes EXCEPT !.fn = "phrase", !.arg = class, !.idx = idx]
    /\ LookupFrame

LangNext ==
    \/ CallFromName
    \/ CallFromEnglishName
    \/ CallFromCode
    \/ CallIsDefault
    \/ CallDefaultLanguage

SupportNext ==
    \/ CallListFor
    \/ CallSupported
    \/ CallPhrase

\* The calls that need no language object to be made on: the static lookups and
\* list() itself.
StaticLangNext ==
    \/ CallFromName
    \/ CallFromEnglishName
    \/ CallFromCode
    \/ CallListFor
    \/ CallDefaultLanguage
    \/ \E t \in Threads : ListCall(t)
    \/ \E t \in Threads : ListTest(t)
    \/ \E t \in Threads : ListPopulate(t)
    \/ \E t \in Threads : ListReturn(t)

----------------------------------------------------------------------------
(* EncryptableSeed: encrypt / decrypt of MoneroSeed and Polyseed *)

Passwords == {"a", "b"}

\* The concrete classes that derive from EncryptableSeed
EncryptableTypes == {"MoneroSeed", "Polyseed"}

\* std::vector<int> m_values: the word indices of a phrase
WordValues == [1..PhraseLen -> 0..(WordCount - 1)]

NoCheck == <<>>
NoEncSeed == [type |-> "none", m_values |-> <<>>, m_encrypted |-> FALSE,
              m_check |-> NoCheck]
NoEncRes == [op |-> "none", pw |-> "", ok |-> FALSE, flag |-> FALSE, values |-> <<>>]
NoEncHist == [known |-> FALSE, values |-> <<>>, pw |-> "", factory |-> ""]

\* The static factories of the seed classes
Factories == {"decode", "create", "generate"}

\* faulty variant: LegacySeed offering what MoneroSeed offers
SeedOperationsAllEncryptable(type) ==
    {"phrase", "values", "fingerprint", "birthday", "height", "encrypted", "network",
     "wallet", "decode", "create", "generate", "encrypt", "decrypt"}

\* The public operations of each concrete class: those of Seed, the factories it
\* declares (decode in all three, create in MoneroSeed and Polyseed, generate in
\* MoneroSeed only) and, for the classes derived from EncryptableSeed, encrypt and
\* decrypt
SeedOperations(type) ==
    {"phrase", "values", "fingerprint", "birthday", "height", "encrypted", "network",
     "wallet", "decode"}
        \cup (IF type \in EncryptableTypes THEN {"create", "encrypt", "decrypt"} ELSE {})
        \cup (IF type = "MoneroSeed" THEN {"generate"} ELSE {})

\* Seed::encrypted: inline, returns false
Seed_encrypted(sd) == FALSE

\* MoneroSeed::encrypted / Polyseed::encrypted: the overrides
EncryptableSeed_encrypted(sd) == sd.m_encrypted

\* sd.encrypted() through the virtual table: LegacySeed declares no override
Seed_encryptedVirtual(sd) ==
    IF sd.type \in EncryptableTypes THEN EncryptableSeed_encrypted(sd)
    ELSE Seed_encrypted(sd)

\* The key stream a password expands to.
Mask(pw) == CASE pw = "a" -> 1 [] pw = "b" -> 2 [] OTHER -> 0

\* What the seed keeps to tell the right password from a wrong one.
PasswordCheck(pw) == <<"check", pw>>

\* The encrypted numeric form of plain values
EncryptValues(values, pw) ==
    [i \in DOMAIN values |-> (values[i] + Mask(pw)) % WordCount]

\* faulty variant: decryption that leaves the numeric form as it is
DecryptValuesKeepsForm(values, pw) == values

\* The plain numeric form of encrypted values
DecryptValues(values, pw) ==
    [i \in DOMAIN values |-> (values[i] + WordCount - (Mask(pw) % WordCount)) % WordCount]

\* MoneroSeed::decode / create / generate, Polyseed::decode / create / generate:
\* the seed holds the values it was given, encrypted when the flag says so.
EncryptableSeedFactory(type, values, encrypted, pw) ==
    [type |-> type, m_values |-> values, m_encrypted |-> encrypted,
     m_check |-> IF encrypted THEN PasswordCheck(pw) ELSE NoCheck]

\* EncryptableSeed::encrypt(password) -> [seed after, value returned]
EncryptableSeed_encrypt(sd, pw) ==
    IF sd.m_encrypted
    THEN [seed |-> sd, ok |-> FALSE]
    ELSE [seed |-> [sd EXCEPT !.m_values = EncryptValues(sd.m_values, pw),
                              !.m_encrypted = TRUE,
                              !.m_check = PasswordCheck(pw)],
          ok |-> TRUE]

\* faulty variant: decrypt that takes any password for the right one
EncryptableSeed_decryptAnyPassword(sd, pw) ==
    IF ~sd.m_encrypted
    THEN [seed |-> sd, ok |-> FALSE]
    ELSE [seed |-> [sd EXCEPT !.m_values = DecryptValues(sd.m_values, pw),
                              !.m_encrypted = FALSE,
                              !.m_check = NoCheck],
          ok |-> TRUE]

\* EncryptableSeed::decrypt(password) -> [seed after, value returned]
EncryptableSeed_decrypt(sd, pw) ==
    IF ~sd.m_encrypted \/ sd.m_check # PasswordCheck(pw)
    THEN [seed |-> sd, ok |-> FALSE]
    ELSE [seed |-> [sd EXCEPT !.m_values = DecryptValues(sd.m_values, pw),
                              !.m_encrypted = FALSE,
                              !.m_check = NoCheck],
          ok |-> TRUE]

EncIdle ==
    /\ eseed = NoEncSeed
    /\ eres = NoEncRes
    /\ ehist = NoEncHist

\* A seed comes out of a factory its class declares: plain, or (decode of an
\* EncryptableSeed with the encrypted flag) encrypted with a password.
EncCreate ==
    /\ eseed = NoEncSeed
    /\ \E type \in SeedTypes, factory \in Factories, values \in WordValues,
          encrypted \in BOOLEAN, pw \in Passwords :
          /\ factory \in SeedOperations(type)
          /\ encrypted => (factory = "decode" /\ type \in EncryptableTypes)
          /\ eseed' = EncryptableSeedFactory(type, values, encrypted, pw)
          /\ ehist' = [NoEncHist EXCEPT !.pw = IF encrypted THEN pw ELSE "",
                                        !.factory = factory]
    /\ eres' = [NoEncRes EXCEPT !.op = "create"]
    /\ UNCHANGED notEnc

\* eseed.encrypt(pw)
CallEncrypt ==
    /\ eseed.type # "none"
    /\ "encrypt" \in SeedOperations(eseed.type)
    /\ \E pw \in Passwords :
          /\ eseed' = EncryptableSeed_encrypt(eseed, pw).seed
          /\ eres' = [NoEncRes EXCEPT !.op = "encrypt", !.pw = pw,
                                      !.ok = EncryptableSeed_encrypt(eseed, pw).ok]
          /\ ehist' = IF EncryptableSeed_encrypt(eseed, pw).ok
                      THEN [ehist EXCEPT !.known = TRUE, !.values = eseed.m_values,
                                         !.pw = pw]
                      ELSE ehist
    /\ UNCHANGED notEnc

\* eseed.decrypt(pw)
CallDecrypt ==
    /\ eseed.type # "none"
    /\ "decrypt" \in SeedOperations(eseed.type)
    /\ \E pw \in Passwords :
          /\ eseed' = EncryptableSeed_decrypt(eseed, pw).seed
          /\ eres' = [NoEncRes EXCEPT !.op = "decrypt", !.pw = pw,
                                      !.ok = EncryptableSeed_decrypt(eseed, pw).ok]
    /\ UNCHANGED <<ehist, notEnc>>

\* eseed.encrypted()
CallEncrypted ==
    /\ eseed.type # "none"
    /\ eres' = [NoEncRes EXCEPT !.op = "encrypted", !.ok = TRUE,
                                !.flag = Seed_encryptedVirtual(eseed)]
    /\ eseed' = SeedAfterConstCall(eseed)
    /\ UNCHANGED <<ehist, notEnc>>

\* eseed.values()
CallValues ==
    /\ eseed.type # "none"
    /\ eres' = [NoEncRes EXCEPT !.op = "values", !.ok = TRUE,
                                !.values = eseed.m_values]
    /\ eseed' = SeedAfterConstCall(eseed)
    /\ UNCHANGED <<ehist, notEnc>>

EncNext ==
    \/ EncCreate
    \/ CallEncrypt
    \/ CallDecrypt
    \/ CallEncrypted
    \/ CallValues

----------------------------------------------------------------------------
(* phrase(language) and decode(phrase, language): the words of a dictionary *)

\* The word of a language's dictionary at an index.
Word(lang, index) == <<lang.code, index>>

\* The index of a word in a language's dictionary, -1 when it is not one of its words.
WordIndex(lang, word) == IF word[1] = lang.code THEN word[2] ELSE -1

\* phrase(language): the values rendered as words of the language, when
\* Seed::languageSupported lets the language pass
Seed_phraseWords(sl, class, lang, values) ==
    IF Seed_phrase(sl, class, lang).ok
    THEN [ok |-> TRUE, words |-> [k \in DOMAIN values |-> Word(lang, values[k])]]
    ELSE [ok |-> FALSE, words |-> <<>>]

\* decode(phrase, language): each word mapped to its index in the language's
\* dictionary; fails on a word that is not in it
Seed_decode(words, lang) ==
    IF \A k \in DOMAIN words : WordIndex(lang, words[k]) >= 0
    THEN [ok |-> TRUE, values |-> [k \in DOMAIN words |-> WordIndex(lang, words[k])]]
    ELSE [ok |-> FALSE, values |-> <<>>]

NoRt == [fn |-> "none", class |-> "", idx |-> 0, values |-> <<>>, ok |-> FALSE,
         decoded |-> <<>>]

PhraseIdle == rt = NoRt

\* S::decode(seed.phrase(L), L).values() for a created or generated seed of class S
\* and the language L = SeedLanguage::list()[idx]
CallPhraseDecode ==
    /\ \E class \in EncryptableTypes, values \in WordValues, idx \in DOMAIN s_list :
          LET p == Seed_phraseWords(s_list, class, s_list[idx], values)
              d == Seed_decode(p.words, s_list[idx])
          IN rt' = [fn |-> "decodePhrase", class |-> class, idx |-> idx,
                    values |-> values, ok |-> p.ok /\ d.ok,
                    decoded |-> IF p.ok THEN d.values ELSE <<>>]
    /\ UNCHANGED notPhrase

PhraseNext == CallPhraseDecode

----------------------------------------------------------------------------
(* SeedJar: Seed objects registered by handle and by fingerprint *)

\* The Seed objects (their identities) and the handles the jar may assign.
SeedObjs == 1..MaxSeeds
SeedHandles == 1..(MaxSeeds + 1)
SeedHandleArgs == 0..(MaxSeeds + 1)
Fingerprints == {"aaaaaa", "bbbbbb"}

NoSeedObj == 0
NoSeedJarRes == [op |-> "none", seed |-> NoSeedObj, handle |-> 0, fp |-> "",
                 ok |-> FALSE, err |-> "", out |-> NoSeedObj]

\* throw ots::exception::seedjar::SeedNotFound()
SeedNotFound == [ok |-> FALSE, err |-> "SeedNotFound", out |-> NoSeedObj]
FoundSeed(obj) == [ok |-> TRUE, err |-> "", out |-> obj]

\* The handles in the jar and the positions of the entries of a seed, of a handle,
\* of a fingerprint.
SeedJarHandles(jar) == {jar[i].handle : i \in DOMAIN jar}
EntriesOfSeed(jar, obj) == {i \in DOMAIN jar : jar[i].seed = obj}
EntriesOfHandle(jar, handle) == {i \in DOMAIN jar : jar[i].handle = handle}
EntriesOfFingerprint(jar, fps, fp) == {i \in DOMAIN jar : fps[jar[i].seed] = fp}

\* The smallest position of a non-empty set of positions: the first registered.
FirstOf(positions) == CHOOSE i \in positions : \A j \in positions : i <= j

\* faulty variant: store registers the seed again under the fresh handle
SeedJar_storeAgain(jar, obj, fresh) ==
    [jar |-> Append(jar, [handle |-> fresh, seed |-> obj]), handle |-> fresh]

\* SeedJar::store(seed): the handle of the entry of this very object when it is
\* registered, else a new entry under the fresh handle
SeedJar_store(jar, obj, fresh) ==
    IF EntriesOfSeed(jar, obj) # {}
    THEN [jar |-> jar, handle |-> jar[FirstOf(EntriesOfSeed(jar, obj))].handle]
    ELSE [jar |-> Append(jar, [handle |-> fresh, seed |-> obj]), handle |-> fresh]

\* SeedJar::has(handle)
SeedJar_hasHandle(jar, handle) == EntriesOfHandle(jar, handle) # {}

\* SeedJar::has(fingerprint)
SeedJar_hasFingerprint(jar, fps, fp) == EntriesOfFingerprint(jar, fps, fp) # {}

\* faulty variant: get(handle) answering with the first registered seed when the
\* handle is absent
SeedJar_getHandleOrFirst(jar, handle) ==
    IF EntriesOfHandle(jar, handle) # {}
    THEN FoundSeed(jar[FirstOf(EntriesOfHandle(jar, handle))].seed)
    ELSE IF jar # <<>> THEN FoundSeed(jar[1].seed) ELSE SeedNotFound

\* SeedJar::get(handle)
SeedJar_getHandle(jar, handle) ==
    IF EntriesOfHandle(jar, handle) # {}
    THEN FoundSeed(jar[FirstOf(EntriesOfHandle(jar, handle))].seed)
    ELSE SeedNotFound

\* SeedJar::get(fingerprint): the first registered seed with the fingerprint
SeedJar_getFingerprint(jar, fps, fp) ==
    IF EntriesOfFingerprint(jar, fps, fp) # {}
    THEN FoundSeed(jar[FirstOf(EntriesOfFingerprint(jar, fps, fp))].seed)
    ELSE SeedNotFound

\* const member functions of the jar: the jar after the call
SeedJarAfterConstCall(jar) == jar

SeedJarIdle ==
    /\ sfp = [obj \in SeedObjs |-> "aaaaaa"]
    /\ sjar = <<>>
    /\ sjres = NoSeedJarRes

\* An empty jar and Seed objects with any fingerprints, equal ones included.
SeedJarStart ==
    /\ sfp \in [SeedObjs -> Fingerprints]
    /\ sjar = <<>>
    /\ sjres = NoSeedJarRes

\* SeedJar::instance().store(seed)
SeedJarStore ==
    /\ \E obj \in SeedObjs, fresh \in SeedHandles :
          /\ fresh \notin SeedJarHandles(sjar)
          /\ sjar' = SeedJar_store(sjar, obj, fresh).jar
          /\ sjres' = [NoSeedJarRes EXCEPT !.op = "store", !.seed = obj, !.ok = TRUE,
                          !.handle = SeedJar_store(sjar, obj, fresh).handle]
    /\ UNCHANGED <<sfp, notSeedJar>>

\* SeedJar::instance().get(handle)
SeedJarGetHandle ==
    /\ \E handle \in SeedHandleArgs :
          sjres' = SeedJar_getHandle(sjar, handle)
                     @@ [NoSeedJarRes EXCEPT !.op = "getHandle", !.handle = handle]
    /\ sjar' = SeedJarAfterConstCall(sjar)
    /\ UNCHANGED <<sfp, notSeedJar>>

\* SeedJar::instance().get(fingerprint)
SeedJarGetFingerprint ==
    /\ \E fp \in Fingerprints :
          sjres' = SeedJar_getFingerprint(sjar, sfp, fp)
                     @@ [NoSeedJarRes EXCEPT !.op = "getFingerprint", !.fp = fp]
    /\ sjar' = SeedJarAfterConstCall(sjar)
    /\ UNCHANGED <<sfp, notSeedJar>>

\* SeedJar::instance().has(handle)
SeedJarHasHandle ==
    /\ \E handle \in SeedHandleArgs :
          sjres' = [NoSeedJarRes EXCEPT !.op = "hasHandle", !.handle = handle,
                                        !.ok = SeedJar_hasHandle(sjar, handle)]
    /\ sjar' = SeedJarAfterConstCall(sjar)
    /\ UNCHANGED <<sfp, notSeedJar>>

\* SeedJar::instance().has(fingerprint)
SeedJarHasFingerprint ==
    /\ \E fp \in Fingerprints :
          sjres' = [NoSeedJarRes EXCEPT !.op = "hasFingerprint", !.fp = fp,
                                        !.ok = SeedJar_hasFingerprint(sjar, sfp, fp)]
    /\ sjar' = SeedJarAfterConstCall(sjar)
    /\ UNCHANGED <<sfp, notSeedJar>>

SeedJarNext ==
    \/ SeedJarStore
    \/ SeedJarGetHandle
    \/ SeedJarGetFingerprint
    \/ SeedJarHasHandle
    \/ SeedJarHasFingerprint

----------------------------------------------------------------------------
(* Address and Wallet::hasAddress *)

\* Strings a caller passes as an address.
AddressStrings == {"", "not an address",
                   "44AFFq5kSiGBoZ4NMDwYtN18obc8AemS33DBLWs3H7otXft3XjrpDtQGv7SqSsaBYBb98uNbr2VBBEt7f2wfn3RVGQBEP3A"}

NoAddress == [m_address |-> ""]
NoAddrRes == [op |-> "none", arg |-> "", ok |-> FALSE, value |-> FALSE, err |-> "",
              obj |-> NoAddress, reached |-> FALSE]

\* Address::isValid: return false; // TODO: implement
Address_isValid(address) == FALSE

\* faulty variant: the constructor stores the string without asking isValid
Address_AddressUnchecked(address) ==
    [ok |-> TRUE, err |-> "", obj |-> [m_address |-> address]]

\* Address::Address(const std::string&): throws address::Invalid unless isValid,
\* else m_address = address
Address_Address(address) ==
    IF ~Address_isValid(address)
    THEN [ok |-> FALSE, err |-> "address::Invalid", obj |-> NoAddress]
    ELSE [ok |-> TRUE, err |-> "", obj |-> [m_address |-> address]]

\* Address::operator std::string: return m_address
Address_string(a) == a.m_address

\* Wallet::hasAddress(const Address&) noexcept: NOT_IMPLEMENTED_YET(); the
\* exception leaves a noexcept function, which ends the program.
Wallet_hasAddressOfAddress(a) ==
    [ok |-> FALSE, value |-> FALSE, err |-> "terminate", reached |-> TRUE]

\* faulty variant: no handler for address::Invalid, which then leaves the
\* noexcept function
Wallet_hasAddressNoCatch(address) ==
    LET made == Address_Address(address)
    IN IF made.ok THEN Wallet_hasAddressOfAddress(made.obj)
       ELSE [ok |-> FALSE, value |-> FALSE, err |-> "terminate", reached |-> FALSE]

\* Wallet::hasAddress(const std::string&) noexcept:
\*   try { return hasAddress(Address(address)); } catch(address::Invalid) { return false; }
Wallet_hasAddress(address) ==
    LET made == Address_Address(address)
    IN IF made.ok THEN Wallet_hasAddressOfAddress(made.obj)
       ELSE IF made.err = "address::Invalid"
            THEN [ok |-> TRUE, value |-> FALSE, err |-> "", reached |-> FALSE]
            ELSE [ok |-> FALSE, value |-> FALSE, err |-> "terminate", reached |-> FALSE]

\* The Wallet operations whose body is NOT_IMPLEMENTED_YET(), by their declaration:
\* noexcept, or free to throw.
WalletNoexcept ==
    {"address", "accounts", "subAddresses", "hasAddress(Address)", "secretViewKey",
     "publicViewKey", "secretSpendKey", "publicSpendKey",
     "checkTransaction(TxDescription)", "signData"}
WalletThrowing ==
    {"addressIndex(string)", "addressIndex(Address)", "importOutputs",
     "exportKeyImages", "describeTransaction", "checkTransaction(string)",
     "signTransaction", "verifyData"}

\* What the caller of such an operation gets: the NotImplementedYet thrown by the
\* body, unless the function is noexcept; an exception leaving a noexcept function
\* calls std::terminate.
Wallet_unimplemented(operation) ==
    IF operation \in WalletNoexcept
    THEN [ok |-> FALSE, err |-> "terminate"]
    ELSE [ok |-> FALSE, err |-> "NotImplementedYet"]

AddrIdle == ares = NoAddrRes

\* std::terminate has not been called: after an exception has left a noexcept
\* function the program is gone and makes no further call.
ProcessRuns == ares.err # "terminate"

CallIsValid ==
    /\ ProcessRuns
    /\ \E address \in AddressStrings :
          ares' = [NoAddrRes EXCEPT !.op = "isValid", !.arg = address, !.ok = TRUE,
                                    !.value = Address_isValid(address)]
    /\ UNCHANGED <<notAddr>>

CallAddress ==
    /\ ProcessRuns
    /\ \E address \in AddressStrings :
          LET made == Address_Address(address)
          IN ares' = [NoAddrRes EXCEPT !.op = "Address", !.arg = address,
                                       !.ok = made.ok, !.err = made.err,
                                       !.obj = made.obj]
    /\ UNCHANGED <<notAddr>>

CallHasAddress ==
    /\ ProcessRuns
    /\ \E address \in AddressStrings :
          LET out == Wallet_hasAddress(address)
          IN ares' = [NoAddrRes EXCEPT !.op = "hasAddress", !.arg = address,
                                       !.ok = out.ok, !.value = out.value,
                                       !.err = out.err, !.reached = out.reached]
    /\ UNCHANGED <<notAddr>>

----------------------------------------------------------------------------
(* OTS static operations and the C ABI: version, context *)

\* Characters are their codes; a C string is a sequence of them ending at the
\* first NUL.
NUL == 0
VersionDigits == {48, 49}

\* The literals version.h can define OTS_VERSION_STRING as: major.minor.patch.
VersionStrings ==
    {<<48, 46, minor, 46, patch, NUL>> : minor \in {49}, patch \in VersionDigits}

\* what() of the exceptions operator new raises: "std::bad_alloc"
BadAllocWhat == <<115, 116, 100, 58, 58, 98, 97, 100, 95, 97, 108, 108, 111, 99, NUL>>

\* strlen: number of characters before the first NUL
strlen(p) == (CHOOSE i \in 1..Len(p) : p[i] = NUL /\ \A j \in 1..(i - 1) : p[j] # NUL) - 1

\* std::string(const char*): the characters before the first NUL
StdString(p) == SubSeq(p, 1, strlen(p))

\* std::string::c_str: the characters followed by a NUL
c_str(str) == Append(str, NUL)

\* strdup: a new array holding the characters up to and including the first NUL
strdup(p) == [i \in 1..(strlen(p) + 1) |-> p[i]]

\* strncpy(dst, src, n): the first n characters of src, padded with NULs when src
\* is shorter; the rest of dst as it was
strncpy(dst, source, n) ==
    LET length == strlen(source)
    IN [i \in DOMAIN dst |->
           IF i > n THEN dst[i]
           ELSE IF i <= length THEN source[i] ELSE NUL]

\* char message[256] of ots_error_t
MessageSize == 256

NoOtsRes == [op |-> "none", ok |-> FALSE, err |-> "", out |-> <<>>]

\* faulty variant: 32 bytes come back
OTS_randomZeros == [ok |-> TRUE, err |-> "", out |-> [i \in 1..32 |-> 0]]

\* OTS::random: NOT_IMPLEMENTED_YET()
OTS_random == [ok |-> FALSE, err |-> "NotImplementedYet", out |-> <<>>]

\* faulty variant: the version without its patch component
OTS_versionShort(literal) == SubSeq(StdString(literal), 1, 3)

\* OTS::version: return OTS_VERSION_STRING;
OTS_version(literal) == StdString(literal)

\* ots_version: std::string version_str = ots::OTS::version();
\*              return strdup(version_str.c_str());
ots_version(literal) == strdup(c_str(OTS_version(literal)))

\* The free store: HeapSize addresses, each free or holding an object.
Addresses == 1..HeapSize
NullPtr == 0
FreeCell == [kind |-> "free", impl |-> NullPtr]
FreeAddresses(h) == {a \in Addresses : h[a].kind = "free"}

\* ots_result_t result = {};
ZeroResult == [ctx |-> NullPtr,
               error |-> [code |-> 0, message |-> [i \in 1..MessageSize |-> NUL]]]

\* faulty variant: the message is recorded but the code is left as it was
translate_exceptionKeepsCode(error, what) ==
    [error EXCEPT !.message =
        [strncpy(error.message, what, MessageSize - 1) EXCEPT ![MessageSize] = NUL]]

\* translate_exception: code = -1, message = e.what() cut to the array
translate_exception(error, what) ==
    [code |-> -1,
     message |-> [strncpy(error.message, what, MessageSize - 1)
                     EXCEPT ![MessageSize] = NUL]]

\* set_error_success: code = 0, message[0] = '\0'
set_error_success(res) ==
    [res EXCEPT !.error.code = 0, !.error.message[1] = NUL]

\* ots_create_context, given what the two operator new calls do: ctxAt and otsAt
\* are the addresses they return, NullPtr standing for std::bad_alloc. In
\* new ots_ctx_st(new ots::OTS()) the storage of the ots_ctx_st is allocated first,
\* then the ots::OTS; when the second new throws, the new-expression gives the
\* storage back, so a failed call leaves the free store as it was.
ots_create_context(h, ctxAt, otsAt) ==
    IF ctxAt = NullPtr \/ otsAt = NullPtr
    THEN [heap |-> h,
          result |-> [ZeroResult EXCEPT
                         !.error = translate_exception(ZeroResult.error, BadAllocWhat)]]
    ELSE [heap |-> [h EXCEPT ![otsAt] = [kind |-> "OTS", impl |-> NullPtr],
                             ![ctxAt] = [kind |-> "ots_ctx_st", impl |-> otsAt]],
          result |-> set_error_success([ZeroResult EXCEPT !.ctx = ctxAt])]

\* faulty variant: the context is deleted but result->ctx keeps its address
ots_free_contextKeepsCtx(h, given, res) ==
    IF given /\ res.ctx # NullPtr
    THEN [heap |-> [a \in DOMAIN h |->
                       IF a \in {res.ctx, h[res.ctx].impl} THEN FreeCell ELSE h[a]],
          result |-> res]
    ELSE [heap |-> h, result |-> res]

\* ots_free_context(result), given telling whether the pointer passed is non-null:
\* if (result && result->ctx) { delete result->ctx;
\* result->ctx = nullptr; }, the unique_ptr member deleting the OTS instance
ots_free_context(h, given, res) ==
    IF given /\ res.ctx # NullPtr
    THEN [heap |-> [h EXCEPT ![res.ctx] = FreeCell, ![h[res.ctx].impl] = FreeCell],
          result |-> [res EXCEPT !.ctx = NullPtr]]
    ELSE [heap |-> h, result |-> res]

\* The ots_result_t as its holder reads it: the message as a C string.
AsRead(res) == [res EXCEPT !.error.message = StdString(@)]

OtsIdle ==
    /\ OTS_VERSION_STRING = <<48, 46, 49, 46, 48, NUL>>
    /\ ores = NoOtsRes
    /\ cres = AsRead(ZeroResult)
    /\ heap = [a \in Addresses |-> FreeCell]

OtsStart ==
    /\ OTS_VERSION_STRING \in VersionStrings
    /\ ores = NoOtsRes
    /\ cres = AsRead(ZeroResult)
    /\ heap = [a \in Addresses |-> FreeCell]

CallRandom ==
    /\ ProcessRuns
    /\ ores' = [op |-> "random", ok |-> OTS_random.ok, err |-> OTS_random.err,
                out |-> OTS_random.out]
    /\ UNCHANGED <<OTS_VERSION_STRING, cres, heap, notOts>>

CallHeightFromTimestamp ==
    /\ ProcessRuns
    /\ \E timestamp \in TimeValues, network \in Networks :
          LET out == heightFromTimestamp(timestamp, network)
          IN ores' = [op |-> "heightFromTimestamp", ok |-> out.ok, err |-> out.err,
                      out |-> <<>>]
    /\ UNCHANGED <<OTS_VERSION_STRING, cres, heap, notOts>>

CallTimestampFromHeight ==
    /\ ProcessRuns
    /\ \E height \in HeightValues, network \in Networks :
          LET out == timestampFromHeight(height, network)
          IN ores' = [op |-> "timestampFromHeight", ok |-> out.ok, err |-> out.err,
                      out |-> <<>>]
    /\ UNCHANGED <<OTS_VERSION_STRING, cres, heap, notOts>>

CallVersion ==
    /\ ProcessRuns
    /\ ores' = [op |-> "version", ok |-> TRUE, err |-> "",
                out |-> OTS_version(OTS_VERSION_STRING)]
    /\ UNCHANGED <<OTS_VERSION_STRING, cres, heap, notOts>>

CallOtsVersion ==
    /\ ProcessRuns
    /\ ores' = [op |-> "ots_version", ok |-> TRUE, err |-> "",
                out |-> ots_version(OTS_VERSION_STRING)]
    /\ UNCHANGED <<OTS_VERSION_STRING, cres, heap, notOts>>

OtsCreateContext ==
    /\ ProcessRuns
    /\ \E ctxAt \in FreeAddresses(heap) \cup {NullPtr} :
       \E otsAt \in (FreeAddresses(heap) \ {ctxAt}) \cup {NullPtr} :
          /\ ctxAt = NullPtr => otsAt = NullPtr
          /\ LET made == ots_create_context(heap, ctxAt, otsAt)
             IN /\ heap' = made.heap
                /\ cres' = AsRead(made.result)
    /\ ores' = [NoOtsRes EXCEPT !.op = "ots_create_context"]
    /\ UNCHANGED <<OTS_VERSION_STRING, notOts>>

OtsFreeContext ==
    /\ ProcessRuns
    /\ \E given \in BOOLEAN :
          LET freed == ots_free_context(heap, given, cres)
          IN /\ heap' = freed.heap
             /\ cres' = freed.result
    /\ ores' = [NoOtsRes EXCEPT !.op = "ots_free_context"]
    /\ UNCHANGED <<OTS_VERSION_STRING, notOts>>

\* A call of a Wallet operation that does not take an Address (none can be
\* constructed: Address::isValid rejects every string). checkTransaction is called
\* with a default-constructed TxDescription, the class being empty.
CallWalletOperation ==
    /\ ProcessRuns
    /\ \E operation \in (WalletNoexcept \cup WalletThrowing)
                          \ {"hasAddress(Address)", "addressIndex(Address)"} :
          ares' = [NoAddrRes EXCEPT !.op = operation,
                                    !.ok = Wallet_unimplemented(operation).ok,
                                    !.err = Wallet_unimplemented(operation).err]
    /\ UNCHANGED <<notAddr>>

OtsNext ==
    \/ CallIsValid
    \/ CallWalletOperation
    \/ CallAddress
    \/ CallHasAddress
    \/ CallRandom
    \/ CallHeightFromTimestamp
    \/ CallTimestampFromHeight
    \/ CallVersion
    \/ CallOtsVersion
    \/ OtsCreateContext
    \/ OtsFreeContext

----------------------------------------------------------------------------
(* epee::net_utils::i_sub_handler::update_and_stop *)

\* Contents of the string passed as collect_remains.
Pieces == {"", "data", "0\r\n"}

\* The classes the call is made on: do_nothing_sub_handler, and any other class
\* derived from i_sub_handler that keeps the inherited update_and_stop.
SubHandlers == {"do_nothing_sub_handler", "derived"}

HandlerIdle ==
    sub = [pc |-> "idle", handler |-> "derived", collect_remains |-> "",
           passed |-> FALSE, is_changed |-> FALSE,
           called |-> <<>>, res |-> FALSE, returned |-> FALSE]

\* What stop may leave in the string: do_nothing_sub_handler::stop has an empty
\* body, another handler may write its remains.
stop(handler, collect_remains) ==
    IF handler = "do_nothing_sub_handler" THEN {collect_remains} ELSE Pieces

\* faulty variant: stop is called whatever update_in returned
AfterUpdateInAlwaysStops(res) == "stop"

\* if(res) this->stop(collect_remains);
AfterUpdateIn(res) == IF res THEN "stop" ELSE "return"

\* update_and_stop(collect_remains, is_changed) is called: any string, and a bool of
\* the caller with any value.
UpdateAndStopCall ==
    /\ sub.pc \in {"idle", "done", "thrown"}
    /\ \E handler \in SubHandlers, piece \in Pieces, flag \in BOOLEAN :
          sub' = [pc |-> "assign", handler |-> handler, collect_remains |-> piece,
                  passed |-> flag, is_changed |-> flag,
                  called |-> <<>>, res |-> FALSE, returned |-> FALSE]
    /\ UNCHANGED notHandler

\* is_changed = true;
SetIsChanged ==
    /\ sub.pc = "assign"
    /\ sub' = [sub EXCEPT !.pc = "update_in", !.is_changed = TRUE]
    /\ UNCHANGED notHandler

\* bool res = this->update_in(collect_remains): the pure virtual of the derived
\* handler (for do_nothing_sub_handler, handle_target_data of the owner) returns
\* either value and may rewrite the string
UpdateInReturns ==
    /\ sub.pc = "update_in"
    /\ \E res \in BOOLEAN, piece \in Pieces :
          sub' = [sub EXCEPT !.pc = "test", !.res = res, !.collect_remains = piece,
                             !.called = Append(@, "update_in")]
    /\ UNCHANGED notHandler

\* ... or throws, after it may have rewritten the string; update_and_stop lets
\* the exception through
UpdateInThrows ==
    /\ sub.pc = "update_in"
    /\ \E piece \in Pieces :
          sub' = [sub EXCEPT !.pc = "thrown", !.collect_remains = piece,
                             !.called = Append(@, "update_in")]
    /\ UNCHANGED notHandler

\* if(res)
TestRes ==
    /\ sub.pc = "test"
    /\ sub' = [sub EXCEPT !.pc = AfterUpdateIn(sub.res)]
    /\ UNCHANGED notHandler

\* this->stop(collect_remains)
StopCalled ==
    /\ sub.pc = "stop"
    /\ \E piece \in stop(sub.handler, sub.collect_remains) :
          sub' = [sub EXCEPT !.pc = "return", !.collect_remains = piece,
                             !.called = Append(@, "stop")]
    /\ UNCHANGED notHandler

\* ... or stop throws, after it may have rewritten the string: the exception
\* leaves update_and_stop and nothing is returned. The empty body of
\* do_nothing_sub_handler::stop does not throw.
StopThrows ==
    /\ sub.pc = "stop"
    /\ sub.handler # "do_nothing_sub_handler"
    /\ \E piece \in stop(sub.handler, sub.collect_remains) :
          sub' = [sub EXCEPT !.pc = "thrown", !.collect_remains = piece,
                             !.called = Append(@, "stop")]
    /\ UNCHANGED notHandler

\* return res;
UpdateAndStopReturn ==
    /\ sub.pc = "return"
    /\ sub' = [sub EXCEPT !.pc = "done", !.returned = sub.res]
    /\ UNCHANGED notHandler

HandlerNext ==
    \/ UpdateAndStopCall
    \/ SetIsChanged
    \/ UpdateInReturns
    \/ UpdateInThrows
    \/ TestRes
    \/ StopCalled
    \/ StopThrows
    \/ UpdateAndStopReturn

\* What the components other than the jar, the seed, the languages and the
\* encryptable seed start with.
TailIdle == AddrIdle /\ OtsIdle /\ HandlerIdle
RestIdle == PhraseIdle /\ SeedJarIdle /\ TailIdle

----------------------------------------------------------------------------
(* Specifications: the jar under concurrent callers; a seed and its callers; *)
(* the language catalog and its callers                                      *)

Init == KeyJarInit /\ SeedInit /\ LangIdle /\ EncIdle /\ RestIdle

KeyJarNext ==
    \E t \in Threads :
        \/ StoreCall(t)
        \/ StoreLock(t)
        \/ GenerateHandle(t)
        \/ StoreFinish(t)
        \/ GetCall(t)
        \/ GetLock(t)
        \/ GetBody(t)
        \/ RemoveCall(t)
        \/ RemoveLock(t)
        \/ RemoveBody(t)

Next == KeyJarNext

\* The callers of the termination analysis store one key under one label: the
\* loop of generateHandle reads neither.
StoreCallOneKey(t) ==
    /\ StoreCall(t)
    /\ loc'[t].key = 1
    /\ loc'[t].label = ""

FairNext ==
    \E t \in Threads :
        \/ StoreCallOneKey(t)
        \/ StoreLock(t)
        \/ GenerateHandle(t)
        \/ StoreFinish(t)
        \/ GetCall(t)
        \/ GetLock(t)
        \/ GetBody(t)
        \/ RemoveCall(t)
        \/ RemoveLock(t)
        \/ RemoveBody(t)

\* Scheduling of the jar's callers: a thread inside storeKey keeps running, and
\* the random draws of generateHandle are fair: while some handle passes the loop
\* test, such a handle is eventually drawn.
DrawsUnused(t) == GenerateHandle(t) /\ pc'[t] = "store_emplace"
KeyJarFairness ==
    \A t \in Threads : WF_vars(DrawsUnused(t) \/ StoreFinish(t))
FairSpec == Init /\ [][FairNext]_vars /\ KeyJarFairness

Spec == Init /\ [][Next]_vars

SeedSpec == Init /\ [][SeedNext]_vars

\* The lookups and the defaults over the tables of which the support flags are all set.
LangInit == KeyJarInit /\ SeedInit /\ LangTable(MoneroSupportMaps) /\ EncIdle /\ RestIdle

LangSpec == LangInit /\ [][LangNext]_vars

\* Threads calling list() over the same tables, the empty one (as the source
\* leaves s_list) included.
ListSpec == LangInit /\ [][ListNext]_vars

\* The support flags over the tables with any flags.
SupportInit == KeyJarInit /\ SeedInit /\ LangTable(SupportMaps) /\ EncIdle /\ RestIdle

SupportSpec == SupportInit /\ [][SupportNext]_vars

\* The static members as the source leaves them (no statement under src/ writes
\* them), under the static lookups.
SourceLangSpec == Init /\ [][StaticLangNext]_vars

EncSpec == Init /\ [][EncNext]_vars

HandlerSpec == Init /\ [][HandlerNext]_vars

SeedJarInit ==
    KeyJarInit /\ SeedInit /\ LangIdle /\ EncIdle /\ PhraseIdle /\ SeedJarStart /\ TailIdle

SeedJarSpec == SeedJarInit /\ [][SeedJarNext]_vars
OtsInit ==
    /\ KeyJarInit /\ SeedInit /\ LangIdle /\ EncIdle /\ PhraseIdle /\ SeedJarIdle
    /\ AddrIdle /\ OtsStart /\ HandlerIdle
OtsSpec == OtsInit /\ [][OtsNext]_vars

\* Round trips through phrase and decode over the tables with any flags.
PhraseSpec == SupportInit /\ [][PhraseNext]_vars

----------------------------------------------------------------------------
(* Properties of the jar *)

\* A storeKey of thread t completes in this step.
StoreReturns(t) == pc[t] = "store_emplace" /\ pc'[t] = "idle"
\* A getKey of thread t completes in this step.
GetReturns(t) == pc[t] = "get_body" /\ pc'[t] = "idle"
\* A removeKey of thread t completes in this step.
RemoveReturns(t) == pc[t] = "remove_body" /\ pc'[t] = "idle"

\* The completing store repeats the key bytes and label of the latest store, and
\* nothing was erased between the two.
RepeatsLastStore(t) ==
    /\ lastStore.valid
    /\ lastStore.key = loc[t].key
    /\ lastStore.label = loc[t].label

\* C1 (as stated): storing bit-identical key bytes with the same label twice returns
\* the same handle both times and the entry count grows by exactly one across the
\* two calls. (storeKey looks no key or label up: the second store inserts a second
\* entry under a fresh handle.)
C1_SameKeySameHandle ==
    [][\A t \in Threads :
          (StoreReturns(t) /\ RepeatsLastStore(t)) =>
              /\ ret'[t].handle = lastStore.handle
              /\ Cardinality(keys_') = lastStore.sizeBefore + 1]_vars

\* C2: no entry has handle 0, the handles of the entries present are pairwise
\* distinct, and the handle a store is about to insert and return is nonzero and
\* differs from the handle of every entry in the jar at that moment.
C2_HandlesNonzeroDistinct ==
    /\ \A e \in keys_ : e.handle # 0
    /\ \A e1, e2 \in keys_ : e1.handle = e2.handle => e1 = e2
    /\ \A t \in Threads :
          pc[t] = "store_emplace" =>
              loc[t].handle # 0 /\ loc[t].handle \notin Handles(keys_)
    /\ \A t \in Threads :
          ret[t].op = "store" => ret[t].handle # 0

\* C2 witness: a store has chosen its handle while the jar already holds an entry.
C2_StoreIntoNonEmptyJar ==
    \E t \in Threads : pc[t] = "store_emplace" /\ keys_ # {}

\* C3 (as stated): the handle a store returns differs from every handle that was
\* ever removed from the jar.
C3_RemovedHandleNeverReissued ==
    \A t \in Threads : pc[t] = "store_emplace" => loc[t].handle \notin removed

\* C4 (as stated): getKey(h) returns null for every handle h that no store has
\* returned, and for every handle h on which removeKey has removed an entry.
C4_GetAbsentIfNeverStoredOrRemoved ==
    [][\A t \in Threads :
          GetReturns(t) =>
              /\ loc[t].handle \notin issued => ~ret'[t].ok
              /\ loc[t].handle \in removed => ~ret'[t].ok]_vars

\* C5: removeKey(h) returns true exactly when an entry with handle h was present
\* immediately before it ran; it erases that entry and leaves every other entry
\* unchanged; a second removeKey(h) with no store in between returns false and
\* changes nothing.
C5_RemoveErasesExactlyThatEntry ==
    [][\A t \in Threads :
          RemoveReturns(t) =>
              LET h == loc[t].handle IN
              /\ ret'[t].ok = (\E e \in keys_ : e.handle = h)
              /\ keys_' = {e \in keys_ : e.handle # h}
              /\ h \in removedSinceStore => (~ret'[t].ok /\ keys_' = keys_)]_vars

\* C5 witness: a removeKey has returned false on a handle that a store had issued
\* and that removeKey had already run on, no store in between.
C5_SecondRemoveReturned ==
    \E t \in Threads :
        /\ ret[t].op = "remove" /\ ret[t].again /\ ~ret[t].ok
        /\ ret[t].handle \in issued /\ ret[t].handle \in removed

\* Every step inside storeKey, getKey or removeKey is taken by the holder of the
\* mutex, and only one thread is inside at a time.
InsideJar(t) == pc[t] \in {"store_gen", "store_emplace", "get_body", "remove_body"}
KeyJarMutualExclusion ==
    /\ \A t \in Threads : InsideJar(t) => mutex_ = t
    /\ \A t, u \in Threads : (InsideJar(t) /\ InsideJar(u)) => t = u

\* The entry of every completed store whose handle was never removed is in the jar.
KeyJarNoLostInsert == (issued \ removed) \subseteq Handles(keys_)

\* C6 (as stated): store, get and remove run entirely under the jar's mutex, two
\* stores never return the same handle, and the entry of every completed store is
\* present until it is removed.
C6_SerializedStoresNeverShareHandle ==
    /\ KeyJarMutualExclusion
    /\ KeyJarNoLostInsert
    /\ \A t \in Threads : pc[t] = "store_emplace" => loc[t].handle \notin issued

\* C7: the jar does not protect a returned key reference: once getKey has returned,
\* the caller holds the reference without holding the jar's mutex, so nothing keeps
\* another thread's removeKey from destroying the entry it points to.
C7_ReferenceHeldWithoutLock ==
    \A t \in Threads :
        (pc[t] = "idle" /\ ref[t] # NullRef) => mutex_ # t

\* C7 witness: thread t still holds the reference getKey(h) gave it, and another
\* thread's removeKey(h) has destroyed the entry: the reference dangles.
C7_DanglingReference ==
    \E t, u \in Threads :
        /\ t # u
        /\ ref[t].handle # 0 /\ ~ref[t].live
        /\ ret[t] = [op |-> "get", handle |-> ref[t].handle, ok |-> TRUE, again |-> FALSE]
        /\ ret[u].op = "remove" /\ ret[u].ok /\ ret[u].handle = ref[t].handle
        /\ ~Find(keys_, ref[t].handle)

----------------------------------------------------------------------------
(* Properties of Seed::birthday / Seed::height *)

\* C8: birthday() and height() never write a derived value back: after any
\* sequence of calls the stored birthday and height are those the seed was created
\* with.
C8_NoWriteBack ==
    /\ seed.m_birthday = created.m_birthday
    /\ seed.m_height = created.m_height
    /\ seed = created

\* C8 witness: a derivation was run (the conversion was consulted) on a seed that
\* stores only one of the two coordinates.
C8_DerivationRan ==
    /\ result.fn \in {"birthday", "height"}
    /\ calls # <<>>
    /\ (seed.m_birthday = 0) # (seed.m_height = 0)

\* C9: height() returns the stored height whenever it is non-zero and
\* heightFromTimestamp(birthday, network) when the stored height is 0 and the
\* stored birthday is not; birthday() returns the stored birthday whenever it is
\* non-zero and timestampFromHeight(height, network) when the stored birthday is 0
\* and the stored height is not; with both stored non-zero neither consults the
\* conversion.
C9_MutualDerivation ==
    /\ result.fn = "height" =>
          /\ seed.m_height # 0 =>
                /\ result.ok /\ result.value = seed.m_height
                /\ calls = <<>>
          /\ (seed.m_height = 0 /\ seed.m_birthday # 0) =>
                /\ calls = <<Consulted("heightFromTimestamp", seed.m_birthday,
                                       seed.m_network)>>
                /\ [ok |-> result.ok, value |-> result.value, err |-> result.err]
                     = heightFromTimestamp(seed.m_birthday, seed.m_network)
    /\ result.fn = "birthday" =>
          /\ seed.m_birthday # 0 =>
                /\ result.ok /\ result.value = seed.m_birthday
                /\ calls = <<>>
          /\ (seed.m_birthday = 0 /\ seed.m_height # 0) =>
                /\ calls = <<Consulted("timestampFromHeight", seed.m_height,
                                       seed.m_network)>>
                /\ [ok |-> result.ok, value |-> result.value, err |-> result.err]
                     = timestampFromHeight(seed.m_height, seed.m_network)
    /\ (result.fn # "none" /\ seed.m_birthday # 0 /\ seed.m_height # 0) =>
          calls = <<>>

\* C9 witness: height() has derived from a stored birthday (no height stored).
C9_HeightDerivedFromBirthday ==
    /\ result.fn = "height"
    /\ seed.m_height = 0 /\ seed.m_birthday # 0
    /\ calls # <<>>

\* C10 (as stated): for a Polyseed, height() is the height estimate of the birthday
\* less 30 days: it consults heightFromTimestamp(birthday - 30 days, network), not
\* heightFromTimestamp(birthday, network).
C10_PolyseedHeightLess30Days ==
    (seed.type = "Polyseed" /\ result.fn = "height" /\ seed.m_birthday >= ThirtyDays) =>
        /\ calls = <<Consulted("heightFromTimestamp", seed.m_birthday - ThirtyDays,
                               seed.m_network)>>
        /\ [ok |-> result.ok, value |-> result.value, err |-> result.err]
             = heightFromTimestamp(seed.m_birthday - ThirtyDays, seed.m_network)

----------------------------------------------------------------------------
(* Properties of the SeedLanguage lookups *)

\* The attribute each lookup compares with its argument.
LookupAttribute(fn, lang) ==
    CASE fn = "fromName" -> lang.name
      [] fn = "fromEnglishName" -> lang.englishName
      [] fn = "fromCode" -> lang.code

Lookups == {"fromName", "fromEnglishName", "fromCode"}

\* C11: fromName, fromEnglishName and fromCode each return a catalog entry whose
\* respective attribute is exactly the argument, fail with LanguageNotFound exactly
\* when no catalog entry has that attribute equal to the argument, and leave the
\* catalog (and the defaults) as they were.
C11_ExactLookup ==
    [][ langRes'.fn \in Lookups =>
          /\ langRes'.ok <=>
                \E i \in DOMAIN s_list :
                    LookupAttribute(langRes'.fn, s_list[i]) = langRes'.arg
          /\ langRes'.ok =>
                /\ Len(langRes'.langs) = 1
                /\ \E i \in DOMAIN s_list : s_list[i] = langRes'.langs[1]
                /\ LookupAttribute(langRes'.fn, langRes'.langs[1]) = langRes'.arg
          /\ ~langRes'.ok => langRes'.err = "LanguageNotFound"
          /\ s_list' = s_list
          /\ s_default' = s_default ]_vars

\* C11 witness: fromEnglishName("english") failed with LanguageNotFound on a
\* catalog that holds the language whose English name is "English".
C11_DifferentCaseNotFound ==
    /\ langRes.fn = "fromEnglishName" /\ langRes.arg = "english"
    /\ ~langRes.ok /\ langRes.err = "LanguageNotFound"
    /\ \E i \in DOMAIN s_list : s_list[i].englishName = "English"

\* C12: for every index i of the catalog, fromCode(list()[i].code()) succeeds and
\* equals list()[i] under operator==.
C12_FromCodeOfListedCode ==
    langRes.fn = "fromCode" =>
        \A i \in DOMAIN list(s_list) :
            list(s_list)[i].code = langRes.arg =>
                /\ langRes.ok
                /\ LanguageEquals(langRes.langs[1], list(s_list)[i])

\* C12 witness: fromCode was called with the code of the second entry of a catalog
\* of two and returned a language.
C12_SecondEntryFound ==
    /\ langRes.fn = "fromCode" /\ langRes.ok
    /\ Len(s_list) = 2 /\ langRes.arg = s_list[2].code

----------------------------------------------------------------------------
(* Properties of the support flags *)

\* The flag a language itself records for a seed type, false when it records none.
OwnFlag(lang, type) == type \in DOMAIN lang.supported /\ lang.supported[type]

\* C13 (as stated): listFor(type) returns exactly the catalog entries whose own
\* supported[type] flag is true, in catalog order.
C13_ListForIsOwnFlagFilter ==
    langRes.fn = "listFor" =>
        LET Own(item) == OwnFlag(item, langRes.type)
        IN langRes.langs = SelectSeq(s_list, Own)

\* C14 (as stated): L.supported(type) returns L's own flag for the type, false
\* when L has none, whatever the other catalog entries and their order are.
C14_SupportedIsOwnFlag ==
    langRes.fn = "supported" =>
        langRes.flag = OwnFlag(s_list[langRes.idx], langRes.type)

----------------------------------------------------------------------------
(* Properties of the default languages *)

\* C15: defaultLanguage(type) returns the language registered as default for the
\* type, fails with NoDefaultLanguageSet exactly when none is registered, never
\* returns another language, and leaves the catalog and the defaults as they were.
C15_DefaultOrNoDefaultLanguageSet ==
    [][ langRes'.fn = "defaultLanguage" =>
          /\ langRes'.ok <=> langRes'.type \in DOMAIN s_default
          /\ langRes'.ok => langRes'.langs = <<s_default[langRes'.type]>>
          /\ ~langRes'.ok => langRes'.err = "NoDefaultLanguageSet"
          /\ s_list' = s_list
          /\ s_default' = s_default ]_vars

\* C15 witness: defaultLanguage(type) failed with NoDefaultLanguageSet although
\* the catalog has languages and the other seed type has a default.
C15_NoSubstituteForMissingDefault ==
    /\ langRes.fn = "defaultLanguage"
    /\ ~langRes.ok /\ langRes.err = "NoDefaultLanguageSet"
    /\ s_list # <<>> /\ DOMAIN s_default # {}

\* The indices of list() whose language answers isDefault(type) with true.
DefaultIndices(type) ==
    {i \in DOMAIN list(s_list) :
        SeedLanguage_isDefault(s_default, list(s_list)[i], type)}

\* C16: for each seed type at most one entry of list() has isDefault(type) true,
\* and when defaultLanguage(type) succeeds that entry is the language it returns.
C16_AtMostOneDefault ==
    /\ \A type \in SeedTypeEnum :
          /\ Cardinality(DefaultIndices(type)) <= 1
          /\ \A i \in DefaultIndices(type) :
                /\ defaultLanguage(s_default, type).ok
                /\ defaultLanguage(s_default, type).langs = <<list(s_list)[i]>>
    /\ (langRes.fn = "isDefault" /\ langRes.flag) =>
          DefaultIndices(langRes.type) = {langRes.idx}

\* C16 witness: isDefault(type) answered true for an entry of a catalog of two
\* whose other entry is the default of the other seed type.
C16_OneOfTwoIsDefault ==
    /\ langRes.fn = "isDefault" /\ langRes.flag
    /\ Len(s_list) = 2
    /\ DOMAIN s_default = SeedTypeEnum
    /\ s_default["Monero"] # s_default["Polyseed"]

----------------------------------------------------------------------------
(* Properties of SeedLanguage::list *)

\* C17 (as stated): the catalog is populated exactly once: under any interleaving
\* of calls to list() the population step runs at most one time.
C17_PopulatedAtMostOnce == populations <= 1

----------------------------------------------------------------------------
(* Properties of phrase(language) *)

\* The SeedType of each concrete seed class.
SeedTypeOf(class) == IF class = "Polyseed" THEN "Polyseed" ELSE "Monero"

\* C18 (as stated): phrase(language) fails whenever the language is not supported
\* for the seed's own SeedType (Monero for LegacySeed and MoneroSeed, Polyseed for
\* Polyseed).
C18_PhraseFailsIfUnsupportedForOwnType ==
    langRes.fn = "phrase" =>
        (~OwnFlag(s_list[langRes.idx], SeedTypeOf(langRes.arg)) => ~langRes.ok)

----------------------------------------------------------------------------
(* Properties of encrypt / decrypt *)

\* C19: an EncryptableSeed is Plain or Encrypted and changes state only through a
\* successful encrypt or decrypt: encrypt moves Plain to Encrypted and leaves an
\* Encrypted seed as it is; decrypt with a wrong password leaves the seed
\* Encrypted and otherwise unchanged; no other operation changes encrypted().
C19_StateChangesOnlyByEncryptDecrypt ==
    [][ eres'.op # "create" =>
          /\ eseed'.m_encrypted \in BOOLEAN
          /\ eseed'.m_encrypted # eseed.m_encrypted =>
                eres'.op \in {"encrypt", "decrypt"} /\ eres'.ok
          /\ (eres'.op = "encrypt" /\ ~eseed.m_encrypted) =>
                eseed'.m_encrypted /\ eres'.ok
          /\ (eres'.op = "encrypt" /\ eseed.m_encrypted) =>
                eseed' = eseed /\ ~eres'.ok
          /\ (eres'.op = "decrypt" /\ eseed.m_encrypted /\ eres'.pw # ehist.pw) =>
                eseed' = eseed /\ eseed'.m_encrypted /\ ~eres'.ok
          /\ eres'.op \in {"encrypted", "values"} => eseed' = eseed ]_vars

\* C19 witness: decrypt with a password other than the one the seed is encrypted
\* with has returned false and the seed is Encrypted.
C19_WrongPasswordRefused ==
    /\ eres.op = "decrypt" /\ ~eres.ok
    /\ eseed.m_encrypted
    /\ eres.pw # ehist.pw

\* C20: on a seed that encrypt(pw) moved from Plain to Encrypted, decrypt(pw) with
\* the same password succeeds and leaves the seed Plain with the values() it had
\* before encrypt.
C20_EncryptDecryptRoundTrip ==
    [][ (eres'.op = "decrypt" /\ eseed.m_encrypted /\ ehist.known
           /\ eres'.pw = ehist.pw) =>
          /\ eres'.ok
          /\ ~eseed'.m_encrypted
          /\ eseed'.m_values = ehist.values ]_vars

\* C20 witness: decrypt has succeeded on a seed encrypt was called on, the values
\* are those from before encrypt, and their encrypted form differs from them.
C20_DecryptedAfterEncrypt ==
    /\ eres.op = "decrypt" /\ eres.ok
    /\ ehist.known
    /\ ~eseed.m_encrypted /\ eseed.m_values = ehist.values
    /\ EncryptValues(ehist.values, ehist.pw) # ehist.values

----------------------------------------------------------------------------
(* Properties of LegacySeed *)

\* C21: a LegacySeed is never encrypted: encrypted() returns false in every state
\* of a LegacySeed, no encrypt or decrypt is ever run on it, and it comes from no
\* factory other than decode.
C21_LegacySeedNeverEncrypted ==
    eseed.type = "LegacySeed" =>
        /\ ~Seed_encryptedVirtual(eseed)
        /\ eres.op = "encrypted" => ~eres.flag
        /\ eres.op \notin {"encrypt", "decrypt"}
        /\ ehist.factory = "decode"
        /\ SeedOperations("LegacySeed") \cap {"encrypt", "decrypt", "create", "generate"} = {}

\* C21 witness: encrypted() was called on a LegacySeed and returned false.
C21_LegacySeedAskedEncrypted ==
    /\ eseed.type = "LegacySeed"
    /\ eres.op = "encrypted" /\ eres.ok /\ ~eres.flag

----------------------------------------------------------------------------
(* Properties of phrase / decode *)

\* C22 (as stated): for every concrete seed type S and every language L supported
\* for S, decoding the phrase a generated or created seed renders in L yields the
\* same values(): S.decode(seed.phrase(L), L).values() == seed.values().
C22_PhraseDecodeRoundTrip ==
    (rt.fn = "decodePhrase" /\ OwnFlag(s_list[rt.idx], SeedTypeOf(rt.class))) =>
        rt.ok /\ rt.decoded = rt.values

----------------------------------------------------------------------------
(* Properties of the SeedJar *)

\* What every store(seed) does, whatever the fingerprints are: the handle of the
\* entry of this very object when it is registered (the jar as it was), else a
\* handle no entry has; afterwards exactly one entry for the object, found by the
\* handle returned.
StoreRegistersOnce ==
    LET obj == sjres'.seed
        handle == sjres'.handle
    IN /\ EntriesOfSeed(sjar, obj) # {} =>
             /\ handle = sjar[FirstOf(EntriesOfSeed(sjar, obj))].handle
             /\ sjar' = sjar
       /\ EntriesOfSeed(sjar, obj) = {} =>
             /\ handle \notin SeedJarHandles(sjar)
             /\ handle # 0
             /\ Len(sjar') = Len(sjar) + 1
       /\ Cardinality(EntriesOfSeed(sjar', obj)) = 1
       /\ SeedJar_getHandle(sjar', handle) = FoundSeed(obj)

\* C23 (as stated): store of the same Seed object returns the same handle every
\* time and the jar holds one entry for it; store of a Seed not yet registered
\* assigns a handle different from all handles in the jar and makes the seed
\* reachable by that handle and by its fingerprint().
C23_StoredSeedReachableByFingerprint ==
    [][ sjres'.op = "store" =>
          /\ StoreRegistersOnce
          /\ SeedJar_getFingerprint(sjar', sfp, sfp[sjres'.seed])
               = FoundSeed(sjres'.seed) ]_vars

\* C23 (amended): as stated, except that get(fingerprint()) returns the stored
\* seed only when no seed registered before it has the same fingerprint; when one
\* has, get(fingerprint()) returns the first registered of them.
C23_StoredSeedReachableUnlessCollision ==
    [][ sjres'.op = "store" =>
          /\ StoreRegistersOnce
          /\ LET obj == sjres'.seed
                 byFp == SeedJar_getFingerprint(sjar', sfp, sfp[obj])
                 earlier == {i \in DOMAIN sjar' :
                               /\ sfp[sjar'[i].seed] = sfp[obj]
                               /\ i < FirstOf(EntriesOfSeed(sjar', obj))}
             IN /\ byFp.ok
                /\ earlier = {} => byFp.out = obj
                /\ earlier # {} => byFp.out = sjar'[FirstOf(earlier)].seed ]_vars

\* C23 witness: a second Seed object with the fingerprint of the first registered
\* one has just been stored.
C23_CollidingSeedStored ==
    /\ sjres.op = "store"
    /\ Len(sjar) = 2
    /\ sjres.seed = sjar[2].seed /\ sjres.handle = sjar[2].handle
    /\ sfp[sjar[1].seed] = sfp[sjar[2].seed]

\* C24: get(handle) and get(fingerprint) fail with SeedNotFound exactly when
\* has(handle) / has(fingerprint) is false and return a registered Seed with that
\* handle / fingerprint otherwise; has never fails; neither changes the jar.
C24_GetFailsIffHasIsFalse ==
    [][ /\ sjres'.op = "getHandle" =>
             /\ sjres'.ok <=> SeedJar_hasHandle(sjar, sjres'.handle)
             /\ sjres'.ok =>
                   \E i \in DOMAIN sjar :
                       sjar[i] = [handle |-> sjres'.handle, seed |-> sjres'.out]
             /\ ~sjres'.ok => sjres'.err = "SeedNotFound"
        /\ sjres'.op = "getFingerprint" =>
             /\ sjres'.ok <=> SeedJar_hasFingerprint(sjar, sfp, sjres'.fp)
             /\ sjres'.ok =>
                   \E i \in DOMAIN sjar :
                       sjar[i].seed = sjres'.out /\ sfp[sjres'.out] = sjres'.fp
             /\ ~sjres'.ok => sjres'.err = "SeedNotFound"
        /\ sjres'.op \in {"hasHandle", "hasFingerprint"} => sjres'.err = ""
        /\ sjres'.op = "hasHandle" =>
             (sjres'.ok <=> sjres'.handle \in SeedJarHandles(sjar))
        /\ sjres'.op = "hasFingerprint" =>
             (sjres'.ok <=> \E i \in DOMAIN sjar : sfp[sjar[i].seed] = sjres'.fp)
        /\ sjres'.op \in {"getHandle", "getFingerprint", "hasHandle", "hasFingerprint"}
             => sjar' = sjar /\ sfp' = sfp ]_vars

\* C24 witness: get(fingerprint) failed with SeedNotFound on a jar that holds a
\* seed with another fingerprint.
C24_AbsentFingerprintNotFound ==
    /\ sjres.op = "getFingerprint"
    /\ ~sjres.ok /\ sjres.err = "SeedNotFound"
    /\ sjar # <<>>

----------------------------------------------------------------------------
(* Properties of Address, Wallet::hasAddress, OTS and the C ABI *)

\* C25: constructing Address(s) succeeds exactly when Address::isValid(s) is true
\* and then the conversion to string returns s; otherwise it fails with
\* address::Invalid and no Address object comes into existence.
C25_AddressConstructedIffValid ==
    ares.op = "Address" =>
        /\ ares.ok <=> Address_isValid(ares.arg)
        /\ ares.ok => Address_string(ares.obj) = ares.arg
        /\ ~ares.ok => ares.err = "address::Invalid" /\ ares.obj = NoAddress

\* C25 witness: the constructor refused a string isValid rejects.
C25_InvalidStringRefused ==
    /\ ares.op = "Address" /\ ares.arg # ""
    /\ ~Address_isValid(ares.arg)
    /\ ~ares.ok /\ ares.err = "address::Invalid"

\* C26: Wallet::hasAddress(string) returns false, without any error, whenever the
\* string is not a valid address; hasAddress(Address) is reached only for valid
\* addresses.
C26_HasAddressFalseForInvalid ==
    ares.op = "hasAddress" =>
        /\ ~Address_isValid(ares.arg) =>
              ares.ok /\ ares.value = FALSE /\ ares.err = ""
        /\ ares.reached => Address_isValid(ares.arg)

\* C26 witness: hasAddress answered false for a string that is not an address,
\* without reaching the membership check.
C26_InvalidStringAnsweredFalse ==
    /\ ares.op = "hasAddress" /\ ares.arg = "not an address"
    /\ ares.ok /\ ~ares.value /\ ~ares.reached

\* C27: OTS::random(), OTS::heightFromTimestamp(t, n) and
\* OTS::timestampFromHeight(h, n) raise NotImplementedYet for every input and
\* never return a value.
C27_UnimplementedRaiseNotImplementedYet ==
    ores.op \in {"random", "heightFromTimestamp", "timestampFromHeight"} =>
        ~ores.ok /\ ores.err = "NotImplementedYet"

\* C27 witness: random() was called and raised NotImplementedYet.
C27_RandomRaised ==
    ores.op = "random" /\ ~ores.ok /\ ores.err = "NotImplementedYet"

\* C28: ots_create_context returns either error code 0, an empty message and a
\* non-null context, or (when construction raises a std::exception) error code -1
\* and a null context; never code 0 with a null context.
C28_ContextOrError ==
    ores.op = "ots_create_context" =>
        \/ /\ cres.error.code = 0
           /\ cres.error.message = <<>>
           /\ cres.ctx # NullPtr
           /\ heap[cres.ctx].kind = "ots_ctx_st"
           /\ heap[heap[cres.ctx].impl].kind = "OTS"
        \/ /\ cres.error.code = -1
           /\ cres.ctx = NullPtr

\* C28 witness: an allocation of ots_create_context failed; the call returned
\* code -1 with the message of std::bad_alloc and left nothing allocated.
C28_ContextAllocationFailed ==
    /\ ores.op = "ots_create_context"
    /\ cres.error.code = -1 /\ cres.ctx = NullPtr
    /\ cres.error.message = StdString(BadAllocWhat)
    /\ \A a \in Addresses : heap[a] = FreeCell

\* C29: OTS::version() returns exactly the non-empty OTS_VERSION_STRING, and
\* ots_version() returns a string equal to the same value, on every call.
C29_VersionIsVersionString ==
    /\ ores.op = "version" =>
          /\ ores.out # <<>>
          /\ c_str(ores.out) = OTS_VERSION_STRING
    /\ ores.op = "ots_version" =>
          /\ ores.out = OTS_VERSION_STRING
          /\ StdString(ores.out) = OTS_version(OTS_VERSION_STRING)

\* C29 witness: ots_version() returned the literal "0.1.1".
C29_OtsVersionReturned ==
    /\ ores.op = "ots_version"
    /\ ores.out = <<48, 46, 49, 46, 49, NUL>>

----------------------------------------------------------------------------
(* Properties of KeyJar::getKey *)

\* C30: get(h) on a present handle increments that entry's access count by
\* exactly one and changes nothing else (same set of handles, same keys and
\* labels, other entries' counts unchanged); get on an absent handle changes
\* nothing at all.
C30_GetCountsOneAccess ==
    [][ \A t \in Threads :
          GetReturns(t) =>
             LET h == loc[t].handle
             IN IF Find(keys_, h)
                THEN /\ Handles(keys_') = Handles(keys_)
                     /\ Cardinality(keys_') = Cardinality(keys_)
                     /\ \A e \in keys_ :
                           \E f \in keys_' :
                              /\ f.handle = e.handle
                              /\ f.key = e.key
                              /\ f.label = e.label
                              /\ f.access_count =
                                    IF e.handle = h THEN e.access_count + 1
                                    ELSE e.access_count
                ELSE keys_' = keys_ ]_vars

\* C30 witness: a get of a present handle has returned while the jar holds another
\* entry, which was never accessed.
C30_OneOfTwoEntriesAccessed ==
    \E t \in Threads :
        /\ ret[t].op = "get" /\ ret[t].ok
        /\ \E e \in keys_, other \in keys_ :
              /\ e.handle = ret[t].handle /\ e.access_count = 1
              /\ other.handle # e.handle /\ other.access_count = 0

----------------------------------------------------------------------------
(* Properties of KeyJar::storeKey: no eviction, termination *)

\* C31: store never evicts: every entry present before a store is still present
\* after it with the same key, label and access count, and the entry count grows
\* by exactly one; entries leave the jar only through remove (the cleanup pass
\* run after each store removes nothing).
C31_StoreNeverEvicts ==
    [][ /\ \A t \in Threads :
              StoreReturns(t) =>
                 /\ keys_ \subseteq keys_'
                 /\ Cardinality(keys_') = Cardinality(keys_) + 1
        /\ (\E e \in keys_ : e.handle \notin Handles(keys_')) =>
              \E t \in Threads :
                 /\ RemoveReturns(t)
                 /\ Handles(keys_) \ Handles(keys_') = {loc[t].handle} ]_vars

\* C31 witness: a store has returned into a jar that holds an entry stored before
\* it and never accessed.
C31_StoredNextToUnusedEntry ==
    \E t \in Threads :
        /\ ret[t].op = "store" /\ pc[t] = "idle"
        /\ \E e \in keys_ : e.handle # ret[t].handle /\ e.access_count = 0
        /\ \E e \in keys_ : e.handle = ret[t].handle

\* Every nonzero handle of the handle space is a key of the map.
JarFull(keys) == HandleDraws \subseteq Handles(keys)

\* C32: a store whose handle generation finds at least one nonzero handle unused
\* eventually returns (under fair random draws); when every nonzero handle is in
\* use the retry loop never exits while the mutex is held: that store never
\* returns, and no later store, get or remove on the jar returns either.
C32_StoreReturnsUnlessJarFull ==
    /\ \A t \in Threads :
          (pc[t] = "store_gen" /\ ~JarFull(keys_))
             ~> (pc[t] = "idle" /\ ret[t].op = "store")
    /\ [][ \A t \in Threads :
             (pc[t] = "store_gen" /\ JarFull(keys_)) =>
                /\ pc'[t] = "store_gen"
                /\ mutex_' = t
                /\ keys_' = keys_
                /\ \A u \in Threads : pc'[u] = "idle" => pc[u] = "idle" ]_vars

\* C32 witness: a store is inside the retry loop with every nonzero handle in
\* use, and the other thread waits for the mutex.
C32_StuckInRetryLoop ==
    \E t \in Threads, u \in Threads :
        /\ pc[t] = "store_gen" /\ JarFull(keys_) /\ mutex_ = t
        /\ u # t /\ pc[u] \in {"store_lock", "get_lock", "remove_lock"}

----------------------------------------------------------------------------
(* Properties of the language catalog as the source leaves it *)

\* C33: nothing adds to the catalog or the default map: list() returns the empty
\* catalog in every reachable state, fromName, fromEnglishName and fromCode fail
\* with LanguageNotFound for every argument, listFor(type) is empty for every
\* type, and defaultLanguage(type) fails with NoDefaultLanguageSet for every type.
C33_CatalogStaysEmpty ==
    /\ s_list = <<>>
    /\ DOMAIN s_default = {}
    /\ \A t \in Threads : lret[t] = <<>>
    /\ langRes.fn \in {"fromName", "fromEnglishName", "fromCode"} =>
          ~langRes.ok /\ langRes.err = "LanguageNotFound"
    /\ langRes.fn = "listFor" => langRes.langs = <<>>
    /\ langRes.fn = "defaultLanguage" =>
          ~langRes.ok /\ langRes.err = "NoDefaultLanguageSet"

\* C33 witness: after list() ran its guarded block, fromCode of a code of the
\* dictionary table failed with LanguageNotFound.
C33_KnownCodeNotFound ==
    /\ populations >= 1
    /\ langRes.fn = "fromCode"
    /\ langRes.arg \in {id.code : id \in LanguageIds}
    /\ ~langRes.ok /\ langRes.err = "LanguageNotFound"

----------------------------------------------------------------------------
(* Properties of birthday() / height() on a seed with nothing stored *)

\* C34: for a seed whose stored birthday and stored height are both 0, height()
\* returns 0 without consulting the conversion, whereas birthday() calls
\* timestampFromHeight(0, network) and returns (or fails with) what that call
\* yields.
C34_NothingStoredAsymmetry ==
    (seed.type # "none" /\ seed.m_birthday = 0 /\ seed.m_height = 0) =>
        /\ result.fn = "height" =>
              /\ result.ok /\ result.value = 0
              /\ calls = <<>>
        /\ result.fn = "birthday" =>
              /\ calls = <<Consulted("timestampFromHeight", 0, seed.m_network)>>
              /\ [ok |-> result.ok, value |-> result.value, err |-> result.err]
                   = timestampFromHeight(0, seed.m_network)

\* C34 witness: birthday() was called on a seed with nothing stored and consulted
\* the conversion.
C34_BirthdayOfNothingStored ==
    /\ seed.type # "none" /\ seed.m_birthday = 0 /\ seed.m_height = 0
    /\ result.fn = "birthday"
    /\ calls # <<>>

----------------------------------------------------------------------------
(* Properties of the unimplemented Wallet operations *)

\* C35 (as stated): calling an unimplemented Wallet operation that is declared
\* non-throwing yields NotImplementedYet to the caller rather than aborting the
\* process.
C35_NoexceptWalletOperationsRaise ==
    ares.op \in WalletNoexcept =>
        ares.err = "NotImplementedYet" /\ ares.err # "terminate"

----------------------------------------------------------------------------
(* Properties of ots_free_context *)

\* C36: ots_free_context releases the context only when the result and its ctx
\* are non-null and then sets ctx to null: in any sequence of create / free calls
\* on a result, a non-null ctx is a live context (none is released twice), a free
\* releases exactly that context and its OTS instance, and a second free or a
\* free of a failed result changes nothing.
C36_FreeContextReleasesOnce ==
    /\ [](cres.ctx # NullPtr =>
             /\ heap[cres.ctx].kind = "ots_ctx_st"
             /\ heap[heap[cres.ctx].impl].kind = "OTS")
    /\ [][ ores'.op = "ots_free_context" =>
             /\ cres.ctx = NullPtr => (heap' = heap /\ cres' = cres)
             /\ cres.ctx # NullPtr =>
                   \/ heap' = heap /\ cres' = cres
                   \/ /\ heap'[cres.ctx] = FreeCell
                      /\ heap'[heap[cres.ctx].impl] = FreeCell
                      /\ \A a \in Addresses :
                            a \notin {cres.ctx, heap[cres.ctx].impl} => heap'[a] = heap[a]
                      /\ cres' = [cres EXCEPT !.ctx = NullPtr] ]_vars

\* C36 witness: the result of a failed ots_create_context was passed to
\* ots_free_context.
C36_FailedResultFreed ==
    /\ ores.op = "ots_free_context"
    /\ cres.error.code = -1 /\ cres.ctx = NullPtr

----------------------------------------------------------------------------
(* Properties of i_sub_handler::update_and_stop *)

\* C37: update_and_stop always sets is_changed to true, calls update_in exactly
\* once, calls stop only after update_in has returned true (never when it returned
\* false, never before it), and returns update_in's result. (When update_in or
\* stop throws, the exception leaves update_and_stop and nothing is returned; the
\* calls made until then are the same.)
C37_UpdateThenStop ==
    /\ sub.pc \in {"update_in", "test", "stop", "return", "done", "thrown"} =>
          sub.is_changed
    /\ sub.pc \in {"assign", "update_in"} => sub.called = <<>>
    /\ sub.pc \in {"test", "stop"} => sub.called = <<"update_in">>
    /\ sub.pc = "thrown" =>
          \/ sub.called = <<"update_in">>
          \/ sub.called = <<"update_in", "stop">> /\ sub.res
    /\ sub.pc \in {"return", "done"} =>
          sub.called = IF sub.res THEN <<"update_in", "stop">> ELSE <<"update_in">>
    /\ sub.pc = "stop" => sub.res
    /\ sub.pc = "done" => sub.returned = sub.res

\* C37 witness: update_and_stop has returned false on a bool that was false, and
\* stop was not called.
C37_ReturnedFalseWithoutStop ==
    /\ sub.pc = "done"
    /\ ~sub.passed /\ ~sub.returned /\ sub.is_changed
    /\ sub.called = <<"update_in">>

====
